---- MODULE Spec2Model ----
(***************************************************************************)
(* Call-analysis pipeline of sales-coach: the call-session routes          *)
(* (backend/app/api/routes/calls.py), the background report generator      *)
(* (backend/app/services/coaching_report.py) and the two deterministic     *)
(* metric engines (speech_metrics.py, emotion_analysis.py).                *)
(*                                                                         *)
(* Encodings.  A nullable column / Optional value is a sequence of length  *)
(* at most one: None is << >>, a present value v is <<v>>.  A Python dict  *)
(* is a function on strings (a record); the empty dict is the empty        *)
(* function.  A text is a sequence of one-character strings.  A number     *)
(* rounded to one decimal is kept as an integer number of tenths, a        *)
(* number rounded to three decimals as an integer number of thousandths.   *)
(***************************************************************************)
EXTENDS Integers, Sequences, FiniteSets, TLC

(***************************************************************************)
(* Optional values and dicts                                               *)
(***************************************************************************)
None == << >>

Some(v) == <<v>>

EmptyDict == [k \in {} |-> 0]

\* Python truthiness of an optional dict: None and {} are falsy.
TruthyDict(o) == o # None /\ o[1] # EmptyDict

\* Python truthiness of an optional number: None and 0 are falsy.
TruthyNum(o) == o # None /\ o[1] # 0

\* d.get(k, default)
DictGet(d, k, default) == IF k \in DOMAIN d THEN d[k] ELSE default

\* {**a, **b}: the keys of b override the keys of a.
DictMerge(a, b) ==
    [k \in DOMAIN a \cup DOMAIN b |-> IF k \in DOMAIN b THEN b[k] ELSE a[k]]

\* round(num / den) to the nearest integer, ties to the even neighbour
\* (Python's round); num >= 0, den > 0.
RoundDiv(num, den) ==
    LET q == num \div den
        r == num % den
    IN  IF 2 * r < den THEN q
        ELSE IF 2 * r > den THEN q + 1
        ELSE IF q % 2 = 0 THEN q ELSE q + 1

RECURSIVE SumSeq(_)
SumSeq(s) == IF s = << >> THEN 0 ELSE Head(s) + SumSeq(Tail(s))

RECURSIVE SelectSeqBy(_, _)
\* [m for m in s if m.get("role") == role]
SelectSeqBy(s, role) ==
    IF s = << >> THEN << >>
    ELSE IF DictGet(Head(s), "role", "") = role
         THEN <<Head(s)>> \o SelectSeqBy(Tail(s), role)
         ELSE SelectSeqBy(Tail(s), role)

(***************************************************************************)
(* Speech metrics engine (speech_metrics.py)                               *)
(***************************************************************************)
FILLER_WORDS ==
    {"um", "uh", "uh-huh", "like", "you know", "basically", "actually",
     "literally", "honestly", "right", "so", "well", "i mean", "sort of",
     "kind of"}

\* The characters of each catalog phrase.
FillerChars ==
    ("um" :> <<"u","m">>) @@
    ("uh" :> <<"u","h">>) @@
    ("uh-huh" :> <<"u","h","-","h","u","h">>) @@
    ("like" :> <<"l","i","k","e">>) @@
    ("you know" :> <<"y","o","u"," ","k","n","o","w">>) @@
    ("basically" :> <<"b","a","s","i","c","a","l","l","y">>) @@
    ("actually" :> <<"a","c","t","u","a","l","l","y">>) @@
    ("literally" :> <<"l","i","t","e","r","a","l","l","y">>) @@
    ("honestly" :> <<"h","o","n","e","s","t","l","y">>) @@
    ("right" :> <<"r","i","g","h","t">>) @@
    ("so" :> <<"s","o">>) @@
    ("well" :> <<"w","e","l","l">>) @@
    ("i mean" :> <<"i"," ","m","e","a","n">>) @@
    ("sort of" :> <<"s","o","r","t"," ","o","f">>) @@
    ("kind of" :> <<"k","i","n","d"," ","o","f">>)

LowerLetters ==
    <<"a","b","c","d","e","f","g","h","i","j","k","l","m",
      "n","o","p","q","r","s","t","u","v","w","x","y","z">>

UpperLetters ==
    <<"A","B","C","D","E","F","G","H","I","J","K","L","M",
      "N","O","P","Q","R","S","T","U","V","W","X","Y","Z">>

\* str.lower() on one character
LowerChar(c) ==
    IF \E i \in 1..26 : UpperLetters[i] = c
    THEN LowerLetters[CHOOSE i \in 1..26 : UpperLetters[i] = c]
    ELSE c

\* str.lower()
Lower(t) == [i \in 1..Len(t) |-> LowerChar(t[i])]

\* \w of the regular-expression engine
IsWordChar(c) ==
    \/ \E i \in 1..26 : LowerLetters[i] = c \/ UpperLetters[i] = c
    \/ c \in {"0","1","2","3","4","5","6","7","8","9","_"}

IsSpace(c) == c = " "

\* str.strip(): the text without leading and trailing white space
Strip(t) ==
    LET idx == {i \in 1..Len(t) : ~IsSpace(t[i])}
    IN  IF idx = {} THEN << >>
        ELSE LET lo == CHOOSE i \in idx : \A j \in idx : i <= j
                 hi == CHOOSE i \in idx : \A j \in idx : i >= j
             IN  SubSeq(t, lo, hi)

RECURSIVE JoinTexts(_)
\* " ".join(m.get("text", "") for m in msgs)
JoinTexts(msgs) ==
    IF msgs = << >> THEN << >>
    ELSE IF Len(msgs) = 1 THEN DictGet(msgs[1], "text", << >>)
    ELSE DictGet(msgs[1], "text", << >>) \o <<" ">> \o JoinTexts(Tail(msgs))

\* len(text.split()) if text.strip() else 0
_count_words(text) ==
    Cardinality({i \in 1..Len(text) :
                    /\ ~IsSpace(text[i])
                    /\ (i = 1 \/ IsSpace(text[i - 1]))})

\* a match of r"\b" + filler + r"\b" that starts at position i of t
FillerMatchAt(t, f, i) ==
    /\ i + Len(f) - 1 <= Len(t)
    /\ SubSeq(t, i, i + Len(f) - 1) = f
    /\ (i = 1 \/ ~IsWordChar(t[i - 1]))
    /\ (i + Len(f) - 1 = Len(t) \/ ~IsWordChar(t[i + Len(f)]))

RECURSIVE FindAllFrom(_, _, _)
\* len(re.findall(pattern, t)): non-overlapping matches, left to right
FindAllFrom(t, f, i) ==
    IF i > Len(t) THEN 0
    ELSE IF FillerMatchAt(t, f, i) THEN 1 + FindAllFrom(t, f, i + Len(f))
    ELSE FindAllFrom(t, f, i + 1)

_count_fillers(text) ==
    LET text_lower == Lower(text)
    IN  [filler \in FILLER_WORDS |->
            FindAllFrom(text_lower, FillerChars[filler], 1)]

\* Mutant: 110 words per minute is too slow.
_assess_wpm_mut(wpm) ==
    IF wpm <= 1100 THEN "too_slow"
    ELSE IF wpm <= 1600 THEN "ideal"
    ELSE "too_fast"

\* wpm is in tenths
_assess_wpm(wpm) ==
    IF wpm < 1100 THEN "too_slow"
    ELSE IF wpm <= 1600 THEN "ideal"
    ELSE "too_fast"

\* user_percent is in tenths
_assess_talk_ratio(user_percent) ==
    IF user_percent < 300 THEN "too_quiet"
    ELSE IF user_percent <= 600 THEN "ideal"
    ELSE "talking_too_much"

_empty_metrics ==
    [words_per_minute |-> 0,
     wpm_assessment |-> "no_data",
     total_user_words |-> 0,
     total_assistant_words |-> 0,
     filler_words |-> [total |-> 0, per_minute |-> 0, breakdown |-> EmptyDict],
     talk_listen_ratio |->
        [user_percent |-> 0, prospect_percent |-> 0, assessment |-> "no_data"],
     longest_monologue_words |-> 0,
     questions_asked |-> 0,
     message_count |-> [user |-> 0, assistant |-> 0]]

RECURSIVE MaxWords(_)
\* the longest single user turn, in words
MaxWords(msgs) ==
    IF msgs = << >> THEN 0
    ELSE LET w == _count_words(DictGet(Head(msgs), "text", << >>))
             rest == MaxWords(Tail(msgs))
         IN  IF w > rest THEN w ELSE rest

EndsWithQuestion(m) ==
    LET s == Strip(DictGet(m, "text", << >>))
    IN  s # << >> /\ s[Len(s)] = "?"

\* Mutant: a duration of zero is not taken for the no-data case; the rates
\* fall back to 0 where the code guards the division.
analyze_speech_metrics_mut(transcript, duration_seconds) ==
    LET messages == DictGet(transcript, "messages", << >>)
    IN  IF messages = << >> \/ duration_seconds < 0 THEN _empty_metrics
        ELSE
        LET user_messages == SelectSeqBy(messages, "user")
            assistant_messages == SelectSeqBy(messages, "assistant")
            user_text == JoinTexts(user_messages)
            assistant_text == JoinTexts(assistant_messages)
            user_words == _count_words(user_text)
            assistant_words == _count_words(assistant_text)
            total_words == user_words + assistant_words
            \* duration_minutes = duration_seconds / 60.0
            wpm == IF duration_seconds > 0
                   THEN RoundDiv(user_words * 600, duration_seconds)
                   ELSE 0
            filler_counts == _count_fillers(user_text)
            total_fillers ==
                LET RECURSIVE Tot(_)
                    Tot(S) == IF S = {} THEN 0
                              ELSE LET f == CHOOSE f \in S : TRUE
                                   IN  filler_counts[f] + Tot(S \ {f})
                IN  Tot(FILLER_WORDS)
            filler_rate == IF duration_seconds > 0
                           THEN RoundDiv(total_fillers * 600, duration_seconds)
                           ELSE 0
            talk_ratio == IF total_words > 0
                          THEN RoundDiv(user_words * 1000, total_words)
                          ELSE 0
        IN  [words_per_minute |-> wpm,
             wpm_assessment |-> _assess_wpm(wpm),
             total_user_words |-> user_words,
             total_assistant_words |-> assistant_words,
             filler_words |->
                [total |-> total_fillers,
                 per_minute |-> filler_rate,
                 breakdown |->
                    [k \in {f \in FILLER_WORDS : filler_counts[f] > 0}
                        |-> filler_counts[k]]],
             talk_listen_ratio |->
                [user_percent |-> talk_ratio,
                 prospect_percent |-> 1000 - talk_ratio,
                 assessment |-> _assess_talk_ratio(talk_ratio)],
             longest_monologue_words |-> MaxWords(user_messages),
             questions_asked |->
                Cardinality({i \in 1..Len(user_messages) :
                                EndsWithQuestion(user_messages[i])}),
             message_count |->
                [user |-> Len(user_messages),
                 assistant |-> Len(assistant_messages)]]

\* transcript is a dict, duration_seconds a number of seconds
analyze_speech_metrics(transcript, duration_seconds) ==
    LET messages == DictGet(transcript, "messages", << >>)
    IN  IF messages = << >> \/ duration_seconds <= 0 THEN _empty_metrics
        ELSE
        LET user_messages == SelectSeqBy(messages, "user")
            assistant_messages == SelectSeqBy(messages, "assistant")
            user_text == JoinTexts(user_messages)
            assistant_text == JoinTexts(assistant_messages)
            user_words == _count_words(user_text)
            assistant_words == _count_words(assistant_text)
            total_words == user_words + assistant_words
            \* duration_minutes = duration_seconds / 60.0
            wpm == RoundDiv(user_words * 600, duration_seconds)
            filler_counts == _count_fillers(user_text)
            total_fillers ==
                LET RECURSIVE Tot(_)
                    Tot(S) == IF S = {} THEN 0
                              ELSE LET f == CHOOSE f \in S : TRUE
                                   IN  filler_counts[f] + Tot(S \ {f})
                IN  Tot(FILLER_WORDS)
            filler_rate == RoundDiv(total_fillers * 600, duration_seconds)
            talk_ratio == IF total_words > 0
                          THEN RoundDiv(user_words * 1000, total_words)
                          ELSE 0
        IN  [words_per_minute |-> wpm,
             wpm_assessment |-> _assess_wpm(wpm),
             total_user_words |-> user_words,
             total_assistant_words |-> assistant_words,
             filler_words |->
                [total |-> total_fillers,
                 per_minute |-> filler_rate,
                 breakdown |->
                    [k \in {f \in FILLER_WORDS : filler_counts[f] > 0}
                        |-> filler_counts[k]]],
             talk_listen_ratio |->
                [user_percent |-> talk_ratio,
                 prospect_percent |-> 1000 - talk_ratio,
                 assessment |-> _assess_talk_ratio(talk_ratio)],
             longest_monologue_words |-> MaxWords(user_messages),
             questions_asked |->
                Cardinality({i \in 1..Len(user_messages) :
                                EndsWithQuestion(user_messages[i])}),
             message_count |->
                [user |-> Len(user_messages),
                 assistant |-> Len(assistant_messages)]]

(***************************************************************************)
(* Emotion aggregator (emotion_analysis.py).  Scores are in thousandths.   *)
(***************************************************************************)
\* The coaching dimensions in declaration (dict) order.
DimensionOrder ==
    <<"Confidence", "Enthusiasm", "Hesitation", "Empathy", "Frustration">>

COACHING_EMOTIONS ==
    [Confidence |-> <<"Determination", "Confidence", "Conviction">>,
     Enthusiasm |-> <<"Excitement", "Joy", "Interest">>,
     Hesitation |-> <<"Doubt", "Confusion", "Anxiety">>,
     Empathy |-> <<"Sympathy", "Compassion", "Understanding">>,
     Frustration |-> <<"Anger", "Annoyance", "Contempt">>]

_empty_summary ==
    [dimension_averages |-> [dim \in DOMAIN COACHING_EMOTIONS |-> 0],
     dominant_emotions |-> << >>,
     timeline |-> << >>,
     total_readings |-> 0]

\* Mutant: a label that the reading does not have counts as 0.0.
PresentScores_mut(emotions, related) ==
    [i \in 1..Len(related) |->
        IF related[i] \in DOMAIN emotions THEN emotions[related[i]] ELSE 0]

\* [emotions.get(e, 0.0) for e in related_emotions if e in emotions]
RECURSIVE PresentScores(_, _)
PresentScores(emotions, related) ==
    IF related = << >> THEN << >>
    ELSE IF Head(related) \in DOMAIN emotions
         THEN <<emotions[Head(related)]>> \o PresentScores(emotions, Tail(related))
         ELSE PresentScores(emotions, Tail(related))

\* The scores of one reading for one dimension.
ReadingScores(reading, dimension) ==
    PresentScores(DictGet(reading, "emotions", EmptyDict),
                  COACHING_EMOTIONS[dimension])

\* dimension_scores[dimension]: one entry sum(scores) / len(scores) for each
\* reading that has a score, kept exactly as the fraction <<sum, len>>.
RECURSIVE DimensionScores(_, _)
DimensionScores(readings, dimension) ==
    IF readings = << >> THEN << >>
    ELSE LET scores == ReadingScores(Head(readings), dimension)
         IN  IF scores # << >>
             THEN << <<SumSeq(scores), Len(scores)>> >>
                    \o DimensionScores(Tail(readings), dimension)
             ELSE DimensionScores(Tail(readings), dimension)

\* round(sum(scores) / len(scores), 3) over fractions with denominators
\* 1, 2 or 3, which are brought to the common denominator 6.
AverageOf(fractions) ==
    IF fractions = << >> THEN 0
    ELSE LET sixths == [i \in 1..Len(fractions) |->
                            fractions[i][1] * (6 \div fractions[i][2])]
         IN  RoundDiv(SumSeq(sixths), 6 * Len(fractions))

\* Mutant: equal averages come out in the reverse of the declaration order.
RankOf_mut(averages, i) ==
    1 + Cardinality({j \in 1..Len(DimensionOrder) :
            \/ averages[DimensionOrder[j]] > averages[DimensionOrder[i]]
            \/ /\ averages[DimensionOrder[j]] = averages[DimensionOrder[i]]
               /\ j > i})

\* Positions of DimensionOrder sorted by average descending; sorted() is
\* stable, so equal averages keep the declaration order.
RankOf(averages, i) ==
    1 + Cardinality({j \in 1..Len(DimensionOrder) :
            \/ averages[DimensionOrder[j]] > averages[DimensionOrder[i]]
            \/ /\ averages[DimensionOrder[j]] = averages[DimensionOrder[i]]
               /\ j < i})

SortedDimensions(averages) ==
    [r \in 1..Len(DimensionOrder) |->
        DimensionOrder[CHOOSE i \in 1..Len(DimensionOrder) :
                            RankOf(averages, i) = r]]

\* Mutant: the points of the timeline are numbered from 1.
TimelinePoint_mut(reading, i) ==
    DictMerge([index |-> i + 1,
               timestamp |-> IF "timestamp" \in DOMAIN reading
                             THEN Some(reading["timestamp"]) ELSE None],
              [dimension \in DOMAIN COACHING_EMOTIONS |->
                    LET scores == ReadingScores(reading, dimension)
                    IN  IF scores # << >>
                        THEN RoundDiv(SumSeq(scores), Len(scores))
                        ELSE 0])

\* point = {"index": i, "timestamp": ..., <dimension>: <score>, ...}
TimelinePoint(reading, i) ==
    DictMerge([index |-> i,
               timestamp |-> IF "timestamp" \in DOMAIN reading
                             THEN Some(reading["timestamp"]) ELSE None],
              [dimension \in DOMAIN COACHING_EMOTIONS |->
                    LET scores == ReadingScores(reading, dimension)
                    IN  IF scores # << >>
                        THEN RoundDiv(SumSeq(scores), Len(scores))
                        ELSE 0])

\* emotion_data is a dict
summarize_emotions(emotion_data) ==
    LET prosody_scores == DictGet(emotion_data, "prosody_scores", << >>)
        user_readings == SelectSeqBy(prosody_scores, "user")
    IN  IF prosody_scores = << >> \/ user_readings = << >> THEN _empty_summary
        ELSE
        LET averages == [dimension \in DOMAIN COACHING_EMOTIONS |->
                            AverageOf(DimensionScores(user_readings, dimension))]
            dominant == SortedDimensions(averages)
        IN  [dimension_averages |-> averages,
             dominant_emotions |->
                [r \in 1..3 |-> [dimension |-> dominant[r],
                                 score |-> averages[dominant[r]]]],
             timeline |->
                [i \in 1..Len(user_readings) |->
                    TimelinePoint(user_readings[i], i - 1)],
             total_readings |-> Len(user_readings)]

(***************************************************************************)
(* Bounds of the model                                                     *)
(***************************************************************************)
\* number of call sessions ever created
MaxSessions == 1

\* number of background tasks that run at the same time
MaxJobs == 2

\* number of requests that change the state (create, complete, analyze and
\* delete requests that are not refused)
MaxRequests == 4

(***************************************************************************)
(* Inputs                                                                  *)
(***************************************************************************)
\* Principals: alice and bob are normal users, admin is a superuser.
Users == {"alice", "bob", "admin"}

Superusers == {"admin"}

\* Every id a request can name; an id names no session before create hands
\* it out and after the session is deleted.
CallIds == 1..MaxSessions

Statuses == {"active", "completed", "analyzing", "done", "error"}

\* "Um so hi?" / "ok"
SampleTranscript ==
    [messages |->
        << [role |-> "user",
            text |-> <<"U","m"," ","s","o"," ","h","i","?">>],
           [role |-> "assistant", text |-> <<"o","k">>] >>]

NoUtterances == [messages |-> << >>]

SampleEmotions ==
    [prosody_scores |->
        << [role |-> "user",
            emotions |-> [Confidence |-> 800, Joy |-> 600],
            timestamp |-> 1000] >>]

\* Bodies of the complete request (CallSessionComplete).
CompleteInputs ==
    { [duration_seconds |-> Some(60), transcript |-> Some(SampleTranscript),
       emotion_data |-> Some(SampleEmotions)],
      [duration_seconds |-> Some(60), transcript |-> None,
       emotion_data |-> None],
      [duration_seconds |-> None, transcript |-> Some(SampleTranscript),
       emotion_data |-> None],
      [duration_seconds |-> Some(0), transcript |-> Some(SampleTranscript),
       emotion_data |-> Some(SampleEmotions)],
      [duration_seconds |-> Some(60), transcript |-> Some(NoUtterances),
       emotion_data |-> None] }

\* What the generative-model service can answer: the call raises, or it
\* returns a message content that is empty, is not JSON, or is a JSON object.
ReportObject ==
    [overall_score |-> 72, tone_summary |-> "steady",
     recommendations |-> <<"ask more questions">>]

ShadowingObject ==
    [overall_score |-> 10,
     speech_metrics |-> [words_per_minute |-> 9999],
     emotion_summary |-> [total_readings |-> 9999]]

ModelResponses ==
    { [kind |-> "raise", content |-> EmptyDict],
      [kind |-> "empty", content |-> EmptyDict],
      [kind |-> "not_json", content |-> EmptyDict],
      [kind |-> "json", content |-> ReportObject],
      [kind |-> "json", content |-> ShadowingObject] }

MissingDataError == [error |-> "Missing transcript or duration data"]

AnalysisFailedError == [error |-> "Analysis failed. Please try again."]

(***************************************************************************)
(* State                                                                   *)
(***************************************************************************)
VARIABLES
    sessions,    \* the callsession table: id -> row
    nextId,      \* the id the next create hands out
    clock,       \* datetime.utcnow(), one tick per complete
    queue,       \* background tasks added and not yet started: id -> count
    triggers,    \* accepted analyze requests: id -> count
    modelCalls,  \* invocations of the generative-model service: id -> count
    jobs         \* the generate_coaching_report tasks of the worker threads

vars == <<sessions, nextId, clock, queue, triggers, modelCalls, jobs>>

\* Mutant: a new row starts in status completed.
CallSession_mut(owner_id) ==
    [owner_id |-> owner_id,
     status |-> "completed",
     duration_seconds |-> None,
     transcript |-> None,
     emotion_data |-> None,
     ended_at |-> None,
     analysis_results |-> None]

\* A row of a new session (CallSession defaults).
CallSession(owner_id) ==
    [owner_id |-> owner_id,
     status |-> "active",
     duration_seconds |-> None,
     transcript |-> None,
     emotion_data |-> None,
     ended_at |-> None,
     analysis_results |-> None]

\* The JSON rendering of a row (CallSessionPublic).
CallSessionPublic(id, row) == DictMerge([id |-> id], row)

\* raise HTTPException(status_code=..., detail=...)
HTTPException(status_code, detail) ==
    [code |-> status_code, body |-> [detail |-> detail]]

\* A handler that returns normally answers 200 with the value it returns.
Respond(body) == [code |-> 200, body |-> body]

\* A task slot that runs nothing.
IdleJob ==
    [pc |-> "idle", id |-> 0,
     speech_metrics |-> None, emotion_summary |-> None,
     checkpointed |-> FALSE, invoked |-> FALSE, outcome |-> "none"]

Init ==
    /\ sessions = EmptyDict
    /\ nextId = 1
    /\ clock = 0
    /\ queue = [id \in CallIds |-> 0]
    /\ triggers = [id \in CallIds |-> 0]
    /\ modelCalls = [id \in CallIds |-> 0]
    /\ jobs = [j \in 1..MaxJobs |-> IdleJob]

(***************************************************************************)
(* Request handlers (calls.py).  A handler is one short transaction on    *)
(* the table.  For each handler, <handler>_response is the HTTP response  *)
(* it sends in the current state and <handler> is its effect on the       *)
(* state: none when it raises HTTPException, none for the reading ones.   *)
(***************************************************************************)
\* The sum of a counter over all ids.
Total(counter) ==
    LET RECURSIVE Sum(_)
        Sum(ids) == IF ids = {} THEN 0
                    ELSE LET i == CHOOSE i \in ids : TRUE
                         IN  counter[i] + Sum(ids \ {i})
    IN  Sum(DOMAIN counter)

\* The requests served so far that changed the state: creates, completes,
\* accepted triggers and deletes.
Requests ==
    (nextId - 1) + clock + Total(triggers)
        + ((nextId - 1) - Cardinality(DOMAIN sessions))

create_call_session_response(current_user) ==
    Respond(CallSessionPublic(nextId, CallSession(current_user)))

create_call_session(current_user) ==
    /\ nextId <= MaxSessions
    /\ Requests < MaxRequests
    /\ sessions' = (nextId :> CallSession(current_user)) @@ sessions
    /\ nextId' = nextId + 1
    /\ UNCHANGED <<clock, queue, triggers, modelCalls, jobs>>

RECURSIVE NewestFirst(_, _)
\* The rows of owner in ids, ordered by created_at descending: ids are
\* handed out in creation order.
NewestFirst(ids, owner) ==
    IF ids = {} THEN << >>
    ELSE LET top == CHOOSE i \in ids : \A k \in ids : i >= k
         IN  IF sessions[top].owner_id = owner
             THEN <<CallSessionPublic(top, sessions[top])>>
                    \o NewestFirst(ids \ {top}, owner)
             ELSE NewestFirst(ids \ {top}, owner)

\* .offset(skip).limit(limit)
OffsetLimit(rows, skip, limit) ==
    SubSeq(rows, skip + 1,
           IF skip + limit < Len(rows) THEN skip + limit ELSE Len(rows))

list_call_sessions_response(current_user, skip, limit) ==
    LET calls == NewestFirst(DOMAIN sessions, current_user)
    IN  Respond([data |-> OffsetLimit(calls, skip, limit),
                 count |-> Len(calls)])

list_call_sessions(current_user) == UNCHANGED vars

get_call_session_response(current_user, call_id) ==
    IF call_id \notin DOMAIN sessions
    THEN HTTPException(404, "Call session not found")
    ELSE IF /\ current_user \notin Superusers
            /\ sessions[call_id].owner_id # current_user
    THEN HTTPException(400, "Not enough permissions")
    ELSE Respond(CallSessionPublic(call_id, sessions[call_id]))

get_call_session(current_user, call_id) == UNCHANGED vars

\* Mutant: completing a session again clears the stored analysis.
CompletedRow_mut(row, data, now) ==
    [row EXCEPT !.duration_seconds = data.duration_seconds,
                !.transcript = data.transcript,
                !.emotion_data = data.emotion_data,
                !.ended_at = Some(now),
                !.analysis_results = None,
                !.status = "completed"]

\* The row after complete has assigned the submitted values.
CompletedRow(row, data, now) ==
    [row EXCEPT !.duration_seconds = data.duration_seconds,
                !.transcript = data.transcript,
                !.emotion_data = data.emotion_data,
                !.ended_at = Some(now),
                !.status = "completed"]

complete_call_session_response(current_user, call_id, data) ==
    IF call_id \notin DOMAIN sessions
    THEN HTTPException(404, "Call session not found")
    ELSE IF sessions[call_id].owner_id # current_user
    THEN HTTPException(400, "Not enough permissions")
    ELSE Respond(CallSessionPublic(call_id,
                    CompletedRow(sessions[call_id], data, clock + 1)))

complete_call_session(current_user, call_id, data) ==
    IF complete_call_session_response(current_user, call_id, data).code # 200
    THEN UNCHANGED vars
    ELSE /\ Requests < MaxRequests
         /\ clock' = clock + 1
         /\ sessions' = [sessions EXCEPT ![call_id] =
                            CompletedRow(@, data, clock + 1)]
         /\ UNCHANGED <<nextId, queue, triggers, modelCalls, jobs>>

\* f"Call must be completed before analysis. Current status: {call.status}"
NotCompletedDetail(status) ==
    CASE status = "active" ->
            "Call must be completed before analysis. Current status: active"
      [] status = "analyzing" ->
            "Call must be completed before analysis. Current status: analyzing"
      [] status = "done" ->
            "Call must be completed before analysis. Current status: done"
      [] status = "completed" ->
            "Call must be completed before analysis. Current status: completed"
      [] status = "error" ->
            "Call must be completed before analysis. Current status: error"

\* Mutant: the status test also lets a done session through.
analyze_call_session_response_mut(current_user, call_id) ==
    IF call_id \notin DOMAIN sessions
    THEN HTTPException(404, "Call session not found")
    ELSE IF sessions[call_id].owner_id # current_user
    THEN HTTPException(400, "Not enough permissions")
    ELSE IF sessions[call_id].status \notin {"completed", "error", "done"}
    THEN HTTPException(400, NotCompletedDetail(sessions[call_id].status))
    ELSE Respond([message |-> "Analysis started"])

analyze_call_session_response(current_user, call_id) ==
    IF call_id \notin DOMAIN sessions
    THEN HTTPException(404, "Call session not found")
    ELSE IF sessions[call_id].owner_id # current_user
    THEN HTTPException(400, "Not enough permissions")
    ELSE IF sessions[call_id].status \notin {"completed", "error"}
    THEN HTTPException(400, NotCompletedDetail(sessions[call_id].status))
    ELSE Respond([message |-> "Analysis started"])

analyze_call_session(current_user, call_id) ==
    IF analyze_call_session_response(current_user, call_id).code # 200
    THEN UNCHANGED vars
    ELSE /\ Requests < MaxRequests
         \* background_tasks.add_task(generate_coaching_report, call.id)
         /\ queue' = [queue EXCEPT ![call_id] = @ + 1]
         /\ triggers' = [triggers EXCEPT ![call_id] = @ + 1]
         /\ UNCHANGED <<sessions, nextId, clock, modelCalls, jobs>>

\* CoachingReportPublic(**call.analysis_results, transcript=call.transcript)
CoachingReportPublic(analysis_results, transcript) ==
    DictMerge(analysis_results, [transcript |-> transcript])

\* Mutant: completed is missing from the statuses that are not ready.
get_call_report_answer_mut(current_user, call) ==
    IF current_user \notin Superusers /\ call.owner_id # current_user
    THEN HTTPException(400, "Not enough permissions")
    ELSE IF call.status \in {"active", "analyzing"}
    THEN HTTPException(202, "Analysis in progress")
    ELSE IF call.status = "error"
    THEN HTTPException(422,
            DictGet(IF TruthyDict(call.analysis_results)
                    THEN call.analysis_results[1] ELSE EmptyDict,
                    "error", "Analysis failed"))
    ELSE IF ~TruthyDict(call.analysis_results)
    THEN HTTPException(404, "Report not found")
    ELSE Respond(CoachingReportPublic(call.analysis_results[1],
                                      call.transcript))

\* What get_call_report answers for the row it has loaded.
get_call_report_answer(current_user, call) ==
    IF current_user \notin Superusers /\ call.owner_id # current_user
    THEN HTTPException(400, "Not enough permissions")
    ELSE IF call.status \in {"active", "completed", "analyzing"}
    THEN HTTPException(202, "Analysis in progress")
    ELSE IF call.status = "error"
    THEN HTTPException(422,
            DictGet(IF TruthyDict(call.analysis_results)
                    THEN call.analysis_results[1] ELSE EmptyDict,
                    "error", "Analysis failed"))
    ELSE IF ~TruthyDict(call.analysis_results)
    THEN HTTPException(404, "Report not found")
    ELSE Respond(CoachingReportPublic(call.analysis_results[1],
                                      call.transcript))

get_call_report_response(current_user, call_id) ==
    IF call_id \notin DOMAIN sessions
    THEN HTTPException(404, "Call session not found")
    ELSE get_call_report_answer(current_user, sessions[call_id])

get_call_report(current_user, call_id) == UNCHANGED vars

\* Mutant: delete does not look at the owner.
delete_call_session_response_mut(current_user, call_id) ==
    IF call_id \notin DOMAIN sessions
    THEN HTTPException(404, "Call session not found")
    ELSE Respond([message |-> "Call session deleted successfully"])

delete_call_session_response(current_user, call_id) ==
    IF call_id \notin DOMAIN sessions
    THEN HTTPException(404, "Call session not found")
    ELSE IF /\ current_user \notin Superusers
            /\ sessions[call_id].owner_id # current_user
    THEN HTTPException(400, "Not enough permissions")
    ELSE Respond([message |-> "Call session deleted successfully"])

delete_call_session(current_user, call_id) ==
    IF delete_call_session_response(current_user, call_id).code # 200
    THEN UNCHANGED vars
    ELSE /\ Requests < MaxRequests
         /\ sessions' = [i \in DOMAIN sessions \ {call_id} |-> sessions[i]]
         /\ UNCHANGED <<nextId, clock, queue, triggers, modelCalls, jobs>>

(***************************************************************************)
(* The background task generate_coaching_report (coaching_report.py).     *)
(* It runs with its own database session; every statement that reaches    *)
(* the table (a load, a commit, the reload of the expired object after a  *)
(* commit) is one step, and other requests and tasks run between steps.   *)
(* A commit writes the attributes the task assigned and fails when the    *)
(* row is no longer in the table.                                         *)
(***************************************************************************)
Finished == {"idle", "done", "raised"}

\* The task has returned (pc "done") or an exception has left it ("raised");
\* the slot keeps what the run did until the thread takes its next task.
Finish(job, pc, outcome) ==
    [job EXCEPT !.pc = pc, !.outcome = outcome,
                !.speech_metrics = None, !.emotion_summary = None]

\* The worker thread that takes the next task: the first free one.
FreeSlot(j) ==
    /\ jobs[j].pc \in Finished
    /\ \A k \in 1..(j - 1) : jobs[k].pc \notin Finished

\* Mutant: the test for missing data looks at the transcript only.
generate_coaching_report_load_mut(j, call_session_id) ==
    /\ FreeSlot(j)
    /\ queue[call_session_id] > 0
    /\ queue' = [queue EXCEPT ![call_session_id] = @ - 1]
    /\ LET started == [IdleJob EXCEPT !.id = call_session_id] IN
       IF call_session_id \notin DOMAIN sessions
       THEN jobs' = [jobs EXCEPT ![j] = Finish(started, "done", "not_found")]
       ELSE LET call == sessions[call_session_id] IN
            jobs' = [jobs EXCEPT ![j] =
                        [started EXCEPT
                            !.pc = IF ~TruthyDict(call.transcript)
                                   THEN "missing" ELSE "try"]]
    /\ UNCHANGED <<sessions, nextId, clock, triggers, modelCalls>>

\* Mutant: a session that is not found is treated as one without data.
generate_coaching_report_load_unchecked_mut(j, call_session_id) ==
    /\ FreeSlot(j)
    /\ queue[call_session_id] > 0
    /\ queue' = [queue EXCEPT ![call_session_id] = @ - 1]
    /\ LET started == [IdleJob EXCEPT !.id = call_session_id] IN
       IF call_session_id \notin DOMAIN sessions
       THEN jobs' = [jobs EXCEPT ![j] = [started EXCEPT !.pc = "missing"]]
       ELSE LET call == sessions[call_session_id] IN
            jobs' = [jobs EXCEPT ![j] =
                        [started EXCEPT
                            !.pc = IF \/ ~TruthyDict(call.transcript)
                                      \/ ~TruthyNum(call.duration_seconds)
                                   THEN "missing" ELSE "try"]]
    /\ UNCHANGED <<sessions, nextId, clock, triggers, modelCalls>>

\* call = session.get(CallSession, call_session_id), the not-found return
\* and the test for missing data
generate_coaching_report_load(j, call_session_id) ==
    /\ FreeSlot(j)
    /\ queue[call_session_id] > 0
    /\ queue' = [queue EXCEPT ![call_session_id] = @ - 1]
    /\ LET started == [IdleJob EXCEPT !.id = call_session_id] IN
       IF call_session_id \notin DOMAIN sessions
       THEN jobs' = [jobs EXCEPT ![j] = Finish(started, "done", "not_found")]
       ELSE LET call == sessions[call_session_id] IN
            jobs' = [jobs EXCEPT ![j] =
                        [started EXCEPT
                            !.pc = IF \/ ~TruthyDict(call.transcript)
                                      \/ ~TruthyNum(call.duration_seconds)
                                   THEN "missing" ELSE "try"]]
    /\ UNCHANGED <<sessions, nextId, clock, triggers, modelCalls>>

\* Mutant: the commit writes the row again when it is no longer in the
\* table.
generate_coaching_report_missing_mut(j) ==
    /\ jobs[j].pc = "missing"
    /\ sessions' =
         IF jobs[j].id \in DOMAIN sessions
         THEN [sessions EXCEPT ![jobs[j].id] =
                  [@ EXCEPT !.status = "error",
                            !.analysis_results = Some(MissingDataError)]]
         ELSE (jobs[j].id :>
                  [CallSession("alice") EXCEPT
                      !.status = "error",
                      !.analysis_results = Some(MissingDataError)]) @@ sessions
    /\ jobs' = [jobs EXCEPT ![j] = Finish(@, "done", "missing_data")]
    /\ UNCHANGED <<nextId, clock, queue, triggers, modelCalls>>

\* The commit of status = "error" with the missing-data descriptor; it is
\* outside the try block.
generate_coaching_report_missing(j) ==
    /\ jobs[j].pc = "missing"
    /\ IF jobs[j].id \in DOMAIN sessions
       THEN /\ sessions' =
                 [sessions EXCEPT ![jobs[j].id] =
                     [@ EXCEPT !.status = "error",
                               !.analysis_results = Some(MissingDataError)]]
            /\ jobs' = [jobs EXCEPT ![j] = Finish(@, "done", "missing_data")]
       ELSE /\ jobs' = [jobs EXCEPT ![j] = Finish(@, "raised", "missing_data")]
            /\ UNCHANGED sessions
    /\ UNCHANGED <<nextId, clock, queue, triggers, modelCalls>>

\* Mutant: the status is assigned and never committed before the model call.
generate_coaching_report_analyzing_mut(j) ==
    /\ jobs[j].pc = "try"
    /\ jobs' = [jobs EXCEPT ![j].pc = "metrics", ![j].checkpointed = TRUE]
    /\ UNCHANGED <<sessions, nextId, clock, queue, triggers, modelCalls>>

\* The commit of status = "analyzing", first statement of the try block.
generate_coaching_report_analyzing(j) ==
    /\ jobs[j].pc = "try"
    /\ IF jobs[j].id \in DOMAIN sessions
       THEN /\ sessions' = [sessions EXCEPT ![jobs[j].id].status = "analyzing"]
            /\ jobs' = [jobs EXCEPT ![j].pc = "metrics",
                                    ![j].checkpointed = TRUE]
       ELSE /\ jobs' = [jobs EXCEPT ![j].pc = "except"]
            /\ UNCHANGED sessions
    /\ UNCHANGED <<nextId, clock, queue, triggers, modelCalls>>

\* The commit expired the object: reading call.transcript loads the row
\* again.  Then the two metric engines run, the prompt is built and the
\* request to the model is sent.
generate_coaching_report_metrics(j) ==
    /\ jobs[j].pc = "metrics"
    /\ IF jobs[j].id \notin DOMAIN sessions
       THEN /\ jobs' = [jobs EXCEPT ![j].pc = "except"]
            /\ UNCHANGED modelCalls
       ELSE LET call == sessions[jobs[j].id] IN
            \* transcript.get on None, or None <= 0, raises
            IF \/ call.transcript = None
               \/ /\ DictGet(call.transcript[1], "messages", << >>) # << >>
                  /\ call.duration_seconds = None
            THEN /\ jobs' = [jobs EXCEPT ![j].pc = "except"]
                 /\ UNCHANGED modelCalls
            ELSE /\ jobs' =
                      [jobs EXCEPT
                         ![j].pc = "model",
                         ![j].speech_metrics =
                            Some(IF call.duration_seconds = None
                                 THEN _empty_metrics
                                 ELSE analyze_speech_metrics(
                                        call.transcript[1],
                                        call.duration_seconds[1])),
                         ![j].emotion_summary =
                            Some(summarize_emotions(
                                    IF TruthyDict(call.emotion_data)
                                    THEN call.emotion_data[1]
                                    ELSE EmptyDict)),
                         ![j].invoked = TRUE]
                 /\ modelCalls' = [modelCalls EXCEPT ![jobs[j].id] = @ + 1]
    /\ UNCHANGED <<sessions, nextId, clock, queue, triggers>>

\* Mutant: the report is merged into the analysis_results the row holds.
generate_coaching_report_model_mut(j, answer) ==
    /\ jobs[j].pc = "model"
    /\ IF answer.kind \in {"raise", "not_json"}
       THEN /\ jobs' = [jobs EXCEPT ![j].pc = "except"]
            /\ UNCHANGED sessions
       ELSE LET report_data == IF answer.kind = "empty" THEN EmptyDict
                               ELSE answer.content
                analysis_results ==
                    DictMerge(
                        IF /\ jobs[j].id \in DOMAIN sessions
                           /\ sessions[jobs[j].id].analysis_results # None
                        THEN DictMerge(sessions[jobs[j].id].analysis_results[1],
                                       report_data)
                        ELSE report_data,
                        [speech_metrics |-> jobs[j].speech_metrics[1],
                         emotion_summary |-> jobs[j].emotion_summary[1]])
            IN  IF jobs[j].id \in DOMAIN sessions
                THEN /\ sessions' =
                          [sessions EXCEPT ![jobs[j].id] =
                              [@ EXCEPT !.analysis_results = Some(analysis_results),
                                        !.status = "done"]]
                     /\ jobs' = [jobs EXCEPT ![j] = Finish(@, "done", "done")]
                ELSE /\ jobs' = [jobs EXCEPT ![j].pc = "except"]
                     /\ UNCHANGED sessions
    /\ UNCHANGED <<nextId, clock, queue, triggers, modelCalls>>

\* Mutant: the fields of the model's answer are written over the metrics.
generate_coaching_report_model_shadowed_mut(j, answer) ==
    /\ jobs[j].pc = "model"
    /\ IF answer.kind \in {"raise", "not_json"}
       THEN /\ jobs' = [jobs EXCEPT ![j].pc = "except"]
            /\ UNCHANGED sessions
       ELSE LET report_data == IF answer.kind = "empty" THEN EmptyDict
                               ELSE answer.content
                analysis_results ==
                    DictMerge([speech_metrics |-> jobs[j].speech_metrics[1],
                               emotion_summary |-> jobs[j].emotion_summary[1]],
                              report_data)
            IN  IF jobs[j].id \in DOMAIN sessions
                THEN /\ sessions' =
                          [sessions EXCEPT ![jobs[j].id] =
                              [@ EXCEPT !.analysis_results = Some(analysis_results),
                                        !.status = "done"]]
                     /\ jobs' = [jobs EXCEPT ![j] = Finish(@, "done", "done")]
                ELSE /\ jobs' = [jobs EXCEPT ![j].pc = "except"]
                     /\ UNCHANGED sessions
    /\ UNCHANGED <<nextId, clock, queue, triggers, modelCalls>>

\* The model answers; the report is parsed, merged with the metrics and
\* committed with status = "done".
generate_coaching_report_model(j, answer) ==
    /\ jobs[j].pc = "model"
    /\ IF answer.kind \in {"raise", "not_json"}
       THEN /\ jobs' = [jobs EXCEPT ![j].pc = "except"]
            /\ UNCHANGED sessions
       ELSE LET report_data == IF answer.kind = "empty" THEN EmptyDict
                               ELSE answer.content
                analysis_results ==
                    DictMerge(report_data,
                              [speech_metrics |-> jobs[j].speech_metrics[1],
                               emotion_summary |-> jobs[j].emotion_summary[1]])
            IN  IF jobs[j].id \in DOMAIN sessions
                THEN /\ sessions' =
                          [sessions EXCEPT ![jobs[j].id] =
                              [@ EXCEPT !.analysis_results = Some(analysis_results),
                                        !.status = "done"]]
                     /\ jobs' = [jobs EXCEPT ![j] = Finish(@, "done", "done")]
                ELSE /\ jobs' = [jobs EXCEPT ![j].pc = "except"]
                     /\ UNCHANGED sessions
    /\ UNCHANGED <<nextId, clock, queue, triggers, modelCalls>>

\* Mutant: the exception leaves the task; there is no failure handler.
generate_coaching_report_except_mut(j) ==
    /\ jobs[j].pc = "except"
    /\ jobs' = [jobs EXCEPT ![j] = Finish(@, "raised", "failed")]
    /\ UNCHANGED <<sessions, nextId, clock, queue, triggers, modelCalls>>

\* except Exception: session.rollback() and the fresh load of the session
generate_coaching_report_except(j) ==
    /\ jobs[j].pc = "except"
    /\ IF jobs[j].id \in DOMAIN sessions
       THEN jobs' = [jobs EXCEPT ![j].pc = "except_commit"]
       ELSE jobs' = [jobs EXCEPT ![j] = Finish(@, "done", "failed")]
    /\ UNCHANGED <<sessions, nextId, clock, queue, triggers, modelCalls>>

\* Mutant: the except block sets the status and keeps the stored results.
generate_coaching_report_except_commit_mut(j) ==
    /\ jobs[j].pc = "except_commit"
    /\ IF jobs[j].id \in DOMAIN sessions
       THEN /\ sessions' = [sessions EXCEPT ![jobs[j].id].status = "error"]
            /\ jobs' = [jobs EXCEPT ![j] = Finish(@, "done", "failed")]
       ELSE /\ jobs' = [jobs EXCEPT ![j] = Finish(@, "raised", "failed")]
            /\ UNCHANGED sessions
    /\ UNCHANGED <<nextId, clock, queue, triggers, modelCalls>>

\* The commit of status = "error" inside the except block.
generate_coaching_report_except_commit(j) ==
    /\ jobs[j].pc = "except_commit"
    /\ IF jobs[j].id \in DOMAIN sessions
       THEN /\ sessions' =
                 [sessions EXCEPT ![jobs[j].id] =
                     [@ EXCEPT !.status = "error",
                               !.analysis_results = Some(AnalysisFailedError)]]
            /\ jobs' = [jobs EXCEPT ![j] = Finish(@, "done", "failed")]
       ELSE /\ jobs' = [jobs EXCEPT ![j] = Finish(@, "raised", "failed")]
            /\ UNCHANGED sessions
    /\ UNCHANGED <<nextId, clock, queue, triggers, modelCalls>>

(***************************************************************************)
(* Specification                                                           *)
(***************************************************************************)
Next ==
    \/ \E u \in Users : create_call_session(u)
    \/ \E u \in Users : list_call_sessions(u)
    \/ \E u \in Users, id \in CallIds : get_call_session(u, id)
    \/ \E u \in Users, id \in CallIds, data \in CompleteInputs :
            complete_call_session(u, id, data)
    \/ \E u \in Users, id \in CallIds : analyze_call_session(u, id)
    \/ \E u \in Users, id \in CallIds : get_call_report(u, id)
    \/ \E u \in Users, id \in CallIds : delete_call_session(u, id)
    \/ \E j \in 1..MaxJobs, id \in CallIds : generate_coaching_report_load(j, id)
    \/ \E j \in 1..MaxJobs : generate_coaching_report_missing(j)
    \/ \E j \in 1..MaxJobs : generate_coaching_report_analyzing(j)
    \/ \E j \in 1..MaxJobs : generate_coaching_report_metrics(j)
    \/ \E j \in 1..MaxJobs, answer \in ModelResponses :
            generate_coaching_report_model(j, answer)
    \/ \E j \in 1..MaxJobs : generate_coaching_report_except(j)
    \/ \E j \in 1..MaxJobs : generate_coaching_report_except_commit(j)

Spec == Init /\ [][Next]_vars

\* The steps of the task in slot j that reach the table or the model.
generate_coaching_report(j) ==
    \/ \E id \in CallIds : generate_coaching_report_load(j, id)
    \/ generate_coaching_report_missing(j)
    \/ generate_coaching_report_analyzing(j)
    \/ \E answer \in ModelResponses : generate_coaching_report_model(j, answer)
    \/ generate_coaching_report_except(j)
    \/ generate_coaching_report_except_commit(j)

\* The thread pool runs every task that was added, a started task goes on
\* to its next statement, and the call to the model returns or raises.
\* The metric engines are computations that return: a task does not stay
\* in front of them.  Nothing is assumed about the requests.
FairSpec ==
    /\ Spec
    /\ \A j \in 1..MaxJobs : WF_vars(generate_coaching_report(j))
    /\ \A j \in 1..MaxJobs : []<>(jobs[j].pc # "metrics")

(***************************************************************************)
(* A crash of the worker process.  The tasks run in the process that      *)
(* serves the requests (BackgroundTasks): a crash ends every running task *)
(* where it stands and loses the tasks that were added and not started.   *)
(* The table is in the database and keeps every committed write.  The     *)
(* restarted process has no code that looks for sessions left behind.     *)
(***************************************************************************)
Crash ==
    /\ \/ \E j \in 1..MaxJobs : jobs[j].pc \notin Finished
       \/ \E id \in CallIds : queue[id] > 0
    /\ jobs' = [j \in 1..MaxJobs |->
                  IF jobs[j].pc \in Finished THEN jobs[j]
                  ELSE [jobs[j] EXCEPT !.pc = "idle", !.outcome = "crashed",
                                       !.speech_metrics = None,
                                       !.emotion_summary = None]]
    /\ queue' = [id \in CallIds |-> 0]
    /\ UNCHANGED <<sessions, nextId, clock, triggers, modelCalls>>

NextCrash == Next \/ Crash

SpecCrash == Init /\ [][NextCrash]_vars

(***************************************************************************)
(* The two metric engines on stored data.  generate_coaching_report calls  *)
(* analyze_speech_metrics(call.transcript, call.duration_seconds) and      *)
(* summarize_emotions(call.emotion_data or {}) one after the other, after  *)
(* the analyzing commit; SpecEngines runs these two calls on a session     *)
(* whose transcript, duration and emotion data are drawn from the sets     *)
(* below.                                                                  *)
(***************************************************************************)
\* " ".join(["w"] * n)
Words(n) ==
    [i \in 1..(IF n = 0 THEN 0 ELSE 2 * n - 1) |->
        IF i % 2 = 1 THEN "w" ELSE " "]

\* A call in which the user says n words and the prospect m words.
Talk(n, m) ==
    [messages |->
        << [role |-> "user", text |-> Words(n)],
           [role |-> "assistant", text |-> Words(m)] >>]

\* Word counts of the user: 10, 11, 16 and 17 words in 6 seconds are 100,
\* 110, 160 and 170 words per minute.
SpokenWords == {0, 1, 10, 11, 16, 17}

HeardWords == {0, 5}

Durations == {-1, 0, 6, 7, 60}

\* "Um, you know, like summer" / "um like"
FillerTranscript ==
    [messages |->
        << [role |-> "user",
            text |-> <<"U","m",","," ","y","o","u"," ","k","n","o","w",","," ","l","i","k","e"," ","s","u","m","m","e","r">>],
           [role |-> "assistant", text |-> <<"u","m"," ","l","i","k","e">>] >>]

\* "Uh-huh so-called um" / "um like"
HyphenTranscript ==
    [messages |->
        << [role |-> "user",
            text |-> <<"U","h","-","h","u","h"," ","s","o","-","c","a","l","l","e","d"," ","u","m">>],
           [role |-> "assistant", text |-> <<"u","m"," ","l","i","k","e">>] >>]

SpeechInputs ==
    { [transcript |-> Talk(n, m), duration_seconds |-> d] :
        n \in SpokenWords, m \in HeardWords, d \in Durations }
    \cup { [transcript |-> t, duration_seconds |-> d] :
            t \in {NoUtterances, SampleTranscript, EmptyDict,
                   FillerTranscript, HyphenTranscript},
            d \in Durations }

\* Readings of the user and of the assistant, in this order.
MixedEmotions ==
    [prosody_scores |->
        << [role |-> "assistant", emotions |-> [Joy |-> 900],
            timestamp |-> 500],
           [role |-> "user", emotions |-> [Confidence |-> 800, Joy |-> 600],
            timestamp |-> 1000],
           [role |-> "assistant", emotions |-> [Anger |-> 100],
            timestamp |-> 1500],
           [role |-> "user", emotions |-> [Determination |-> 500, Doubt |-> 200],
            timestamp |-> 2000],
           [role |-> "user", emotions |-> [Anger |-> 300],
            timestamp |-> 3000] >>]

AssistantOnlyEmotions ==
    [prosody_scores |->
        << [role |-> "assistant", emotions |-> [Confidence |-> 800],
            timestamp |-> 1000] >>]

\* A reading without a role is not a reading of the user.
NoRoleEmotions ==
    [prosody_scores |->
        << [emotions |-> [Confidence |-> 800], timestamp |-> 1000] >>]

\* One reading in which four dimensions have the same score.
TiedEmotions ==
    [prosody_scores |->
        << [role |-> "user",
            emotions |-> [Anger |-> 500, Sympathy |-> 500, Doubt |-> 500,
                          Joy |-> 500],
            timestamp |-> 1000] >>]

\* The two readings of test_basic_summary.
BasicEmotions ==
    [prosody_scores |->
        << [role |-> "user",
            emotions |-> [Determination |-> 800, Confidence |-> 700,
                          Excitement |-> 600, Joy |-> 500, Interest |-> 400,
                          Doubt |-> 100],
            timestamp |-> 1000],
           [role |-> "user",
            emotions |-> [Determination |-> 900, Confidence |-> 800,
                          Excitement |-> 700, Joy |-> 600, Interest |-> 500,
                          Doubt |-> 200],
            timestamp |-> 2000] >>]

\* Readings whose averages are not whole thousandths: 1.7 / 3 in the first
\* reading, and (1.7 / 3 + 0.5) / 2 over the two.
ThirdsEmotions ==
    [prosody_scores |->
        << [role |-> "user",
            emotions |-> [Excitement |-> 500, Joy |-> 600, Interest |-> 600],
            timestamp |-> 1000],
           [role |-> "user", emotions |-> [Excitement |-> 500],
            timestamp |-> 2000] >>]

\* The stored emotion_data: the column is nullable.
EmotionInputs ==
    { None, Some(EmptyDict), Some([prosody_scores |-> << >>]),
      Some(AssistantOnlyEmotions), Some(NoRoleEmotions),
      Some(SampleEmotions), Some(MixedEmotions),
      Some(TiedEmotions), Some(BasicEmotions), Some(ThirdsEmotions) }

InitEngines ==
    /\ \E input \in SpeechInputs, emotion_data \in EmotionInputs :
          sessions = [id \in {1} |->
                        [CallSession("alice") EXCEPT
                            !.status = "analyzing",
                            !.transcript = Some(input.transcript),
                            !.duration_seconds = Some(input.duration_seconds),
                            !.emotion_data = emotion_data,
                            !.ended_at = Some(1)]]
    /\ nextId = 2
    /\ clock = 1
    /\ queue = [id \in CallIds |-> 0]
    /\ triggers = [id \in CallIds |-> IF id = 1 THEN 1 ELSE 0]
    /\ modelCalls = [id \in CallIds |-> 0]
    /\ jobs = [j \in 1..MaxJobs |->
                IF j = 1
                THEN [IdleJob EXCEPT !.pc = "metrics", !.id = 1,
                                     !.checkpointed = TRUE]
                ELSE IdleJob]

\* speech_metrics = analyze_speech_metrics(call.transcript,
\*                                         call.duration_seconds)
generate_coaching_report_speech_metrics(j) ==
    /\ jobs[j].pc = "metrics"
    /\ LET call == sessions[jobs[j].id] IN
       jobs' = [jobs EXCEPT
                  ![j].pc = "emotions",
                  ![j].speech_metrics =
                      Some(analyze_speech_metrics(call.transcript[1],
                                                  call.duration_seconds[1]))]
    /\ UNCHANGED <<sessions, nextId, clock, queue, triggers, modelCalls>>

\* emotion_summary = summarize_emotions(call.emotion_data or {})
generate_coaching_report_emotion_summary(j) ==
    /\ jobs[j].pc = "emotions"
    /\ LET call == sessions[jobs[j].id] IN
       jobs' = [jobs EXCEPT
                  ![j].pc = "model",
                  ![j].emotion_summary =
                      Some(summarize_emotions(
                              IF TruthyDict(call.emotion_data)
                              THEN call.emotion_data[1] ELSE EmptyDict))]
    /\ UNCHANGED <<sessions, nextId, clock, queue, triggers, modelCalls>>

NextEngines ==
    \/ \E j \in 1..MaxJobs : generate_coaching_report_speech_metrics(j)
    \/ \E j \in 1..MaxJobs : generate_coaching_report_emotion_summary(j)

SpecEngines == InitEngines /\ [][NextEngines]_vars

(***************************************************************************)
(* Properties                                                              *)
(***************************************************************************)
\* A task that is between its load of the session and its last commit.
Running(j) == jobs[j].pc \notin Finished

\* The step of task j from position `from` to position `to`.
JobStep(j, from, to) == jobs[j].pc = from /\ jobs'[j].pc = to

\* The row of the task's session after a commit that assigned status and
\* analysis_results and nothing else.
RowWith(j, status, analysis_results) ==
    [sessions[jobs[j].id] EXCEPT !.status = status,
                                 !.analysis_results = analysis_results]

\* C1: an analyze request of the owner adds the background task if and only
\* if the session's status is completed or error; for active, analyzing and
\* done it answers with a 400 error, adds no task and leaves the table as it
\* was.
C1_TriggerOnlyWhenCompletedOrError ==
    [][\A u \in Users, id \in CallIds :
            ( /\ id \in DOMAIN sessions
              /\ sessions[id].owner_id = u
              /\ analyze_call_session(u, id) )
            => IF sessions[id].status \in {"completed", "error"}
               THEN /\ queue' = [queue EXCEPT ![id] = @ + 1]
                    /\ analyze_call_session_response(u, id).code = 200
                    /\ sessions' = sessions
               ELSE /\ queue' = queue
                    /\ sessions' = sessions
                    /\ analyze_call_session_response(u, id).code = 400]_vars

\* A trigger was accepted and its task is still waiting, while the session
\* has reached done through an earlier task, where a new trigger is refused.
C1_Witness ==
    \E id \in DOMAIN sessions :
        /\ triggers[id] = 2
        /\ queue[id] = 1
        /\ sessions[id].status = "done"
        /\ analyze_call_session_response(sessions[id].owner_id, id).code = 400

\* C2: a run that loads a session whose transcript or duration_seconds is
\* absent goes to the missing-data commit, has neither committed analyzing
\* nor invoked the model, and its commit leaves the row with status error
\* and analysis_results {"error": "Missing transcript or duration data"}.
C2_MissingDataEndsInError ==
    [][\A j \in 1..MaxJobs :
         /\ \A id \in DOMAIN sessions :
              ( /\ generate_coaching_report_load(j, id)
                /\ \/ sessions[id].transcript = None
                   \/ sessions[id].duration_seconds = None )
              => /\ jobs'[j].pc = "missing"
                 /\ ~jobs'[j].checkpointed
                 /\ ~jobs'[j].invoked
                 /\ sessions' = sessions
                 /\ modelCalls' = modelCalls
         /\ ( /\ jobs[j].pc = "missing"
              /\ jobs'[j] # jobs[j]
              /\ jobs[j].id \in DOMAIN sessions )
            => /\ jobs'[j].pc = "done"
               /\ ~jobs'[j].checkpointed
               /\ ~jobs'[j].invoked
               /\ modelCalls' = modelCalls
               /\ sessions' = [sessions EXCEPT ![jobs[j].id] =
                                 RowWith(j, "error", Some(MissingDataError))]]_vars

\* A run on a session without transcript or duration has returned and the
\* row holds the missing-data error.
C2_Witness ==
    \E j \in 1..MaxJobs :
        /\ jobs[j].pc = "done"
        /\ jobs[j].outcome = "missing_data"
        /\ jobs[j].id \in DOMAIN sessions
        /\ LET call == sessions[jobs[j].id]
           IN  /\ call.transcript = None \/ call.duration_seconds = None
               /\ call.status = "error"
               /\ call.analysis_results = Some(MissingDataError)
               /\ modelCalls[jobs[j].id] = 0

\* The merged report of a run: the model's fields, and the two metrics
\* under their own keys.
IsMergedReport(analysis_results, content, speech_metrics, emotion_summary) ==
    /\ DOMAIN analysis_results =
            DOMAIN content \cup {"speech_metrics", "emotion_summary"}
    /\ analysis_results["speech_metrics"] = speech_metrics
    /\ analysis_results["emotion_summary"] = emotion_summary
    /\ \A k \in DOMAIN content \ {"speech_metrics", "emotion_summary"} :
            analysis_results[k] = content[k]

\* C3: a run on a session with transcript and duration commits status
\* analyzing, computes both metrics from the stored transcript, duration and
\* emotion data, and, when the model answers with a JSON report, commits
\* status done with analysis_results holding speech_metrics,
\* emotion_summary and the report's fields.
C3_ValidRunAnalyzingThenDone ==
    [][\A j \in 1..MaxJobs :
         /\ \A id \in DOMAIN sessions :
              ( /\ generate_coaching_report_load(j, id)
                /\ TruthyDict(sessions[id].transcript)
                /\ TruthyNum(sessions[id].duration_seconds) )
              => jobs'[j].pc = "try"
         /\ ( JobStep(j, "try", "metrics") \/ JobStep(j, "try", "model") )
            => /\ jobs[j].id \in DOMAIN sessions'
               /\ sessions'[jobs[j].id].status = "analyzing"
         /\ ( /\ jobs[j].pc = "metrics"
              /\ jobs'[j] # jobs[j]
              /\ jobs[j].id \in DOMAIN sessions
              /\ TruthyDict(sessions[jobs[j].id].transcript)
              /\ TruthyNum(sessions[jobs[j].id].duration_seconds) )
            => LET call == sessions[jobs[j].id]
               IN  /\ jobs'[j].pc = "model"
                   /\ jobs'[j].speech_metrics =
                        Some(analyze_speech_metrics(call.transcript[1],
                                                    call.duration_seconds[1]))
                   /\ jobs'[j].emotion_summary =
                        Some(summarize_emotions(
                                IF call.emotion_data = None THEN EmptyDict
                                ELSE call.emotion_data[1]))
         /\ \A answer \in ModelResponses :
              ( /\ generate_coaching_report_model(j, answer)
                /\ answer.kind = "json"
                /\ jobs[j].id \in DOMAIN sessions )
              => /\ jobs[j].checkpointed
                 /\ jobs'[j].pc = "done"
                 /\ sessions'[jobs[j].id].status = "done"
                 /\ sessions'[jobs[j].id].analysis_results # None
                 /\ IsMergedReport(sessions'[jobs[j].id].analysis_results[1],
                                   answer.content,
                                   jobs[j].speech_metrics[1],
                                   jobs[j].emotion_summary[1])]_vars

\* A run has passed the analyzing commit, the model has answered and the
\* row is done with the merged report of the stored transcript.
C3_Witness ==
    \E j \in 1..MaxJobs :
        /\ jobs[j].pc = "done"
        /\ jobs[j].outcome = "done"
        /\ jobs[j].checkpointed
        /\ jobs[j].id \in DOMAIN sessions
        /\ LET call == sessions[jobs[j].id]
           IN  /\ call.status = "done"
               /\ TruthyDict(call.transcript)
               /\ TruthyNum(call.duration_seconds)
               /\ call.analysis_results # None
               /\ IsMergedReport(call.analysis_results[1], ReportObject,
                      analyze_speech_metrics(call.transcript[1],
                                             call.duration_seconds[1]),
                      summarize_emotions(IF call.emotion_data = None
                                         THEN EmptyDict
                                         ELSE call.emotion_data[1]))
               /\ call.analysis_results[1]["speech_metrics"] # _empty_metrics

\* C4: a failure after the missing-data check (the model call raises, its
\* answer is not JSON, a metric engine or a commit raises) takes the run to
\* the except block without any write; there the session is loaded again
\* and the commit leaves the row with status error and analysis_results
\* {"error": "Analysis failed. Please try again."}.
C4_FailureEndsInError ==
    [][\A j \in 1..MaxJobs :
         /\ \A answer \in ModelResponses :
              ( /\ generate_coaching_report_model(j, answer)
                /\ answer.kind \in {"raise", "not_json"} )
              => jobs'[j].pc = "except"
         /\ ( /\ jobs[j].pc \in {"try", "metrics", "model"}
              /\ jobs'[j].pc = "except" )
            => sessions' = sessions
         /\ ( jobs[j].pc = "except" /\ jobs'[j] # jobs[j] )
            => /\ sessions' = sessions
               /\ IF jobs[j].id \in DOMAIN sessions
                  THEN jobs'[j].pc = "except_commit"
                  ELSE jobs'[j].pc = "done"
         /\ ( /\ jobs[j].pc = "except_commit"
              /\ jobs'[j] # jobs[j]
              /\ jobs[j].id \in DOMAIN sessions )
            => /\ jobs'[j].pc = "done"
               /\ sessions' = [sessions EXCEPT ![jobs[j].id] =
                                 RowWith(j, "error", Some(AnalysisFailedError))]]_vars

\* The model was invoked, the run failed and has returned, and the row holds
\* the analysis-failed error.
C4_Witness ==
    \E j \in 1..MaxJobs :
        /\ jobs[j].pc = "done"
        /\ jobs[j].outcome = "failed"
        /\ jobs[j].invoked
        /\ jobs[j].id \in DOMAIN sessions
        /\ sessions[jobs[j].id].status = "error"
        /\ sessions[jobs[j].id].analysis_results = Some(AnalysisFailedError)

\* C5: at any time at most one run of generate_coaching_report for a given
\* session is between its load of the session and its last commit.
C5_NoConcurrentAnalysis ==
    \A j, k \in 1..MaxJobs :
        (j # k /\ Running(j) /\ Running(k)) => jobs[j].id # jobs[k].id

\* The fields the completion transition sets.
CompletionFields(row) ==
    <<row.transcript, row.emotion_data, row.duration_seconds, row.ended_at>>

\* C6: transcript, emotion_data, duration_seconds and ended_at change only
\* in the step that takes the session from active to completed, where they
\* are set for the first time; they never change afterwards.
C6_CompletionFieldsSetOnce ==
    [][\A id \in DOMAIN sessions \cap DOMAIN sessions' :
            CompletionFields(sessions'[id]) # CompletionFields(sessions[id])
            => /\ sessions[id].status = "active"
               /\ sessions'[id].status = "completed"
               /\ CompletionFields(sessions[id]) = <<None, None, None, None>>]_vars

\* The transitions of the status state machine.
TransitionTable ==
    { <<"active", "completed">>, <<"completed", "analyzing">>,
      <<"completed", "error">>, <<"analyzing", "done">>,
      <<"analyzing", "error">>, <<"error", "analyzing">>,
      <<"error", "error">> }

\* C7: the status is always one of active, completed, analyzing, done and
\* error, and every change of a session's status is a transition of the
\* table.
C7_StatusFollowsTransitionTable ==
    [][\A id \in DOMAIN sessions' :
         /\ sessions'[id].status \in Statuses
         /\ ( /\ id \in DOMAIN sessions
              /\ sessions'[id].status # sessions[id].status )
            => <<sessions[id].status, sessions'[id].status>> \in TransitionTable]_vars

\* A stored session with a transcript and a duration that carry no data: the
\* duration is zero or the transcript has no utterances.
IsNoDataCase(row) ==
    /\ row.transcript # None
    /\ row.duration_seconds # None
    /\ \/ row.duration_seconds[1] = 0
       \/ DictGet(row.transcript[1], "messages", << >>) = << >>

\* C8: a run on a session whose duration is zero, or whose transcript has no
\* utterances, does not take the missing-data path to status error, and the
\* speech metrics it computes are the empty metrics.
C8_NoDataIsNotAnError ==
    [][\A j \in 1..MaxJobs :
         /\ \A id \in DOMAIN sessions :
              ( generate_coaching_report_load(j, id) /\ IsNoDataCase(sessions[id]) )
              => jobs'[j].pc # "missing"
         /\ ( /\ jobs[j].pc = "metrics"
              /\ jobs'[j] # jobs[j]
              /\ jobs[j].id \in DOMAIN sessions
              /\ IsNoDataCase(sessions[jobs[j].id]) )
            => jobs'[j].speech_metrics = Some(_empty_metrics)]_vars

\* A caller who may read the session: its owner or a superuser.
Authorized(u, id) == u \in Superusers \/ sessions[id].owner_id = u

\* The rows get_call_report is checked on: the stored row, and the stored
\* row with every status and without analysis_results (no run of the
\* program stores a done row without results).
ReportRows(id) ==
    {sessions[id]} \cup
    { [sessions[id] EXCEPT !.status = s, !.analysis_results = ar] :
        s \in Statuses, ar \in {None, Some(EmptyDict)} }

\* C9: for an authorized caller get_call_report answers by status: 202
\* "Analysis in progress" for active, completed and analyzing; 422 with the
\* stored error message for error; 404 "Report not found" for done without
\* analysis_results; and 200 with analysis_results merged with the
\* transcript exactly when the status is done and analysis_results is
\* present.  The not-ready answer differs from the error answer.
C9_ReportAnswersByStatus ==
    \A id \in DOMAIN sessions : \A u \in Users :
        Authorized(u, id) =>
        /\ get_call_report_response(u, id)
                = get_call_report_answer(u, sessions[id])
        /\ \A call \in ReportRows(id) :
            LET r == get_call_report_answer(u, call)
                present == call.analysis_results # None
                           /\ call.analysis_results[1] # EmptyDict
            IN  /\ call.status \in {"active", "completed", "analyzing"}
                    => r = HTTPException(202, "Analysis in progress")
                /\ call.status = "error"
                    => /\ r.code = 422
                       /\ r.code # 202
                       /\ (present /\ "error" \in DOMAIN call.analysis_results[1])
                            => r.body.detail = call.analysis_results[1]["error"]
                /\ (call.status = "done" /\ ~present)
                    => r = HTTPException(404, "Report not found")
                /\ r.code = 200 <=> (call.status = "done" /\ present)
                /\ r.code = 200
                    => r.body = DictMerge(call.analysis_results[1],
                                          [transcript |-> call.transcript])

\* A done session whose owner is answered with the merged report.
C9_Witness ==
    \E id \in DOMAIN sessions :
        LET r == get_call_report_response(sessions[id].owner_id, id)
        IN  /\ sessions[id].status = "done"
            /\ r.code = 200
            /\ "overall_score" \in DOMAIN r.body
            /\ r.body["transcript"] = sessions[id].transcript

\* C10: the report of a session whose analysis has not been run (active, or
\* completed and never triggered) is answered with the client error 400.
C10_ReportNotReadyIs400 ==
    \A id \in DOMAIN sessions : \A u \in Users :
        ( /\ Authorized(u, id)
          /\ sessions[id].status \in {"active", "completed"}
          /\ triggers[id] = 0 )
        => get_call_report_response(u, id).code = 400

\* C11: for an empty message list, or a duration of zero or less whatever the
\* transcript holds, analyze_speech_metrics returns the empty metrics: every
\* count and rate 0, an empty filler breakdown and the label no_data for
\* pace and for talk/listen.
C11_EmptyMetricsForNoData ==
    \A j \in 1..MaxJobs :
        ( /\ jobs[j].speech_metrics # None
          /\ jobs[j].id \in DOMAIN sessions )
        => LET call == sessions[jobs[j].id] IN
           ( \/ DictGet(call.transcript[1], "messages", << >>) = << >>
             \/ call.duration_seconds[1] <= 0 )
           => jobs[j].speech_metrics[1] =
                [words_per_minute |-> 0,
                 wpm_assessment |-> "no_data",
                 total_user_words |-> 0,
                 total_assistant_words |-> 0,
                 filler_words |->
                    [total |-> 0, per_minute |-> 0, breakdown |-> EmptyDict],
                 talk_listen_ratio |->
                    [user_percent |-> 0, prospect_percent |-> 0,
                     assessment |-> "no_data"],
                 longest_monologue_words |-> 0,
                 questions_asked |-> 0,
                 message_count |-> [user |-> 0, assistant |-> 0]]

\* The speech engine has run on a transcript with 11 user words and a
\* duration of zero and has returned the label no_data.
C11_Witness ==
    \E j \in 1..MaxJobs :
        /\ jobs[j].speech_metrics # None
        /\ jobs[j].id \in DOMAIN sessions
        /\ sessions[jobs[j].id].transcript = Some(Talk(11, 5))
        /\ sessions[jobs[j].id].duration_seconds = Some(0)
        /\ jobs[j].speech_metrics[1].wpm_assessment = "no_data"
        /\ jobs[j].speech_metrics[1].message_count.user = 0

\* The response r is the error with this status code and detail.
IsError(r, status_code, detail) ==
    r.code = status_code /\ r.body.detail = detail

\* What get, complete, analyze, report and delete answer to user u for id.
AllAnswer(u, id, status_code, detail) ==
    /\ IsError(get_call_session_response(u, id), status_code, detail)
    /\ \A data \in CompleteInputs :
          IsError(complete_call_session_response(u, id, data),
                  status_code, detail)
    /\ IsError(analyze_call_session_response(u, id), status_code, detail)
    /\ IsError(get_call_report_response(u, id), status_code, detail)
    /\ IsError(delete_call_session_response(u, id), status_code, detail)

\* The id names no session, or a session of another owner and u is not a
\* superuser.
Refused(u, id) ==
    \/ id \notin DOMAIN sessions
    \/ u \notin Superusers /\ sessions[id].owner_id # u

\* The answers to u in the current state: 404 for an id that names no
\* session, 400 "Not enough permissions" for another owner's session.
RefusalsAnswered(u, id) ==
    /\ id \notin DOMAIN sessions
        => AllAnswer(u, id, 404, "Call session not found")
    /\ ( /\ id \in DOMAIN sessions
         /\ u \notin Superusers
         /\ sessions[id].owner_id # u )
        => AllAnswer(u, id, 400, "Not enough permissions")

\* C12: get, complete, analyze, report and delete answer 404 for an id that
\* names no session and 400 "Not enough permissions", never 404, for an
\* existing session of another owner when the caller is not a superuser; a
\* request refused in one of these ways leaves the stored sessions as they
\* were.
C12_NotFoundAndPermissionDenied ==
    [][\A u \in Users, id \in CallIds :
         /\ RefusalsAnswered(u, id)
         /\ RefusalsAnswered(u, id)'
         /\ ( /\ Refused(u, id)
              /\ \/ get_call_session(u, id)
                 \/ \E data \in CompleteInputs :
                        complete_call_session(u, id, data)
                 \/ analyze_call_session(u, id)
                 \/ get_call_report(u, id)
                 \/ delete_call_session(u, id) )
            => sessions' = sessions]_vars

\* A completed session of alice exists; bob is refused with 400 and the
\* session is still there.
C12_Witness ==
    \E id \in DOMAIN sessions :
        /\ sessions[id].owner_id = "alice"
        /\ sessions[id].status = "completed"
        /\ AllAnswer("bob", id, 400, "Not enough permissions")
        /\ get_call_session_response("alice", id).code = 200

\* A task for the session is waiting in the queue or is running.
Pending(id) ==
    \/ queue[id] > 0
    \/ \E j \in 1..MaxJobs : Running(j) /\ jobs[j].id = id

\* The session is deleted or its status is done or error.
Settled(id) ==
    \/ id \notin DOMAIN sessions
    \/ sessions[id].status \in {"done", "error"}

\* C13: when the tasks are scheduled fairly and the model call returns or
\* fails, every accepted trigger on a session that is not deleted is
\* followed by the session having status done or error, and a session in
\* analyzing does not stay there for ever.
C13_EveryAttemptTerminates ==
    \A id \in CallIds :
        /\ Pending(id) ~> Settled(id)
        /\ (id \in DOMAIN sessions /\ sessions[id].status = "analyzing")
              ~> Settled(id)
        /\ \A j \in 1..MaxJobs : Running(j) ~> ~Running(j)

\* Two triggers were accepted, both tasks have called the model and have
\* returned, and the session is in error.
C13_Witness ==
    \E id \in DOMAIN sessions :
        /\ triggers[id] = 2
        /\ modelCalls[id] = 2
        /\ ~Pending(id)
        /\ sessions[id].status = "error"

\* C14: no failure leaves generate_coaching_report: whatever step fails,
\* a failure of the table while the session is loaded, while the
\* missing-data error is written or while the failure handler writes the
\* error state included, the task returns normally.
C14_NoFailureEscapes ==
    \A j \in 1..MaxJobs : jobs[j].pc # "raised"

\* C15: analysis_results is absent from creation until a run of
\* generate_coaching_report writes it, and only such a run writes it:
\* create, complete, analyze, get, list and report leave the
\* analysis_results of every session as they are.
C15_OnlyTheJobWritesResults ==
    [][/\ \A id \in DOMAIN sessions' \ DOMAIN sessions :
            sessions'[id].analysis_results = None
       /\ \A id \in DOMAIN sessions :
            sessions[id].analysis_results # None => triggers[id] > 0
       /\ \A id \in DOMAIN sessions \cap DOMAIN sessions' :
            sessions'[id].analysis_results # sessions[id].analysis_results
            => \E j \in 1..MaxJobs :
                  /\ Running(j)
                  /\ jobs[j].id = id
                  /\ jobs'[j].pc \in {"done", "except"}
       /\ ( \/ \E u \in Users : create_call_session(u) \/ list_call_sessions(u)
            \/ \E u \in Users, id \in CallIds :
                  \/ get_call_session(u, id)
                  \/ \E data \in CompleteInputs :
                        complete_call_session(u, id, data)
                  \/ analyze_call_session(u, id)
                  \/ get_call_report(u, id) )
          => \A id \in DOMAIN sessions :
                /\ id \in DOMAIN sessions'
                /\ sessions'[id].analysis_results
                      = sessions[id].analysis_results]_vars

\* A session that holds analysis results was completed a second time and
\* still holds them.
C15_Witness ==
    \E id \in DOMAIN sessions :
        /\ clock = 2
        /\ sessions[id].status = "completed"
        /\ sessions[id].ended_at = Some(2)
        /\ sessions[id].analysis_results # None

\* An error descriptor: a mapping with the key error and no other key.
IsErrorDescriptor(analysis_results) == DOMAIN analysis_results = {"error"}

\* A full report: a mapping that holds speech_metrics and emotion_summary.
IsFullReport(analysis_results) ==
    {"speech_metrics", "emotion_summary"} \subseteq DOMAIN analysis_results

\* The analysis_results of the row are absent, an error descriptor or a full
\* report, and not two of these.
OneKindOfResults(row) ==
    \/ row.analysis_results = None
    \/ /\ row.analysis_results # None
       /\ IsErrorDescriptor(row.analysis_results[1])
            # IsFullReport(row.analysis_results[1])

\* C16: analysis_results is always absent, an error descriptor or a full
\* report; a run that succeeds on a session that holds an error descriptor
\* replaces it as a whole: the new analysis_results is the report of this
\* run, and it has a key error only if the model's answer has one.
C16_ResultsAreOneKind ==
    [][/\ \A id \in DOMAIN sessions : OneKindOfResults(sessions[id])
       /\ \A id \in DOMAIN sessions' : OneKindOfResults(sessions'[id])
       /\ \A j \in 1..MaxJobs, answer \in ModelResponses :
            ( /\ generate_coaching_report_model(j, answer)
              /\ jobs'[j].pc = "done"
              /\ jobs[j].id \in DOMAIN sessions
              /\ sessions[jobs[j].id].analysis_results # None
              /\ IsErrorDescriptor(sessions[jobs[j].id].analysis_results[1]) )
            => LET after == sessions'[jobs[j].id].analysis_results[1]
               IN  /\ IsFullReport(after)
                   /\ ~IsErrorDescriptor(after)
                   /\ "error" \in DOMAIN after
                        => "error" \in DOMAIN answer.content
                   /\ DOMAIN after = DOMAIN answer.content
                        \cup {"speech_metrics", "emotion_summary"}]_vars

\* Analysis has run twice on the session, one run after the other (the
\* second task slot was never used), and the row holds a full report
\* without the key error.
C16_Witness ==
    \E id \in DOMAIN sessions :
        /\ triggers[id] = 2
        /\ modelCalls[id] = 2
        /\ ~Pending(id)
        /\ jobs[2] = IdleJob
        /\ sessions[id].status = "done"
        /\ sessions[id].analysis_results # None
        /\ IsFullReport(sessions[id].analysis_results[1])
        /\ "error" \notin DOMAIN sessions[id].analysis_results[1]

\* C17: create adds a row under a new id with status active, the caller as
\* owner and no transcript, duration, emotion data or analysis results; a
\* complete by the owner leaves the row with status completed and with the
\* submitted duration_seconds, transcript and emotion_data.
C17_CreateAndComplete ==
    [][/\ \A current_user \in Users :
            create_call_session(current_user)
            => /\ nextId \notin DOMAIN sessions
               /\ DOMAIN sessions' = DOMAIN sessions \cup {nextId}
               /\ sessions'[nextId].status = "active"
               /\ sessions'[nextId].owner_id = current_user
               /\ sessions'[nextId].transcript = None
               /\ sessions'[nextId].duration_seconds = None
               /\ sessions'[nextId].emotion_data = None
               /\ sessions'[nextId].analysis_results = None
       /\ \A current_user \in Users, call_id \in DOMAIN sessions,
             data \in CompleteInputs :
            ( /\ complete_call_session(current_user, call_id, data)
              /\ sessions[call_id].owner_id = current_user )
            => /\ sessions'[call_id].status = "completed"
               /\ sessions'[call_id].duration_seconds = data.duration_seconds
               /\ sessions'[call_id].transcript = data.transcript
               /\ sessions'[call_id].emotion_data = data.emotion_data
               /\ sessions'[call_id].owner_id = current_user]_vars

\* A session that its owner created and then completed with a transcript, a
\* duration and emotion data.
C17_Witness ==
    \E id \in DOMAIN sessions :
        /\ sessions[id].status = "completed"
        /\ sessions[id].ended_at # None
        /\ sessions[id].duration_seconds = Some(60)
        /\ sessions[id].transcript = Some(SampleTranscript)
        /\ sessions[id].emotion_data = Some(SampleEmotions)
        /\ sessions[id].analysis_results = None

\* The metrics a task computed for a call of n user words and m prospect
\* words that lasted d seconds, d > 0: the set is empty until the task has
\* computed them.
MetricsOfTalk(n, m, d) ==
    { jobs[j].speech_metrics[1] : j \in
        { k \in 1..MaxJobs :
            /\ jobs[k].speech_metrics # None
            /\ jobs[k].id \in DOMAIN sessions
            /\ sessions[jobs[k].id].transcript = Some(Talk(n, m))
            /\ sessions[jobs[k].id].duration_seconds = Some(d) } }

Abs(x) == IF x < 0 THEN -x ELSE x

\* The label of a pace given in tenths of a word per minute.
PaceLabel(wpm) ==
    CASE wpm < 1100 -> "too_slow"
      [] wpm >= 1100 /\ wpm <= 1600 -> "ideal"
      [] wpm > 1600 -> "too_fast"

\* C18 (as amended): words_per_minute is the user's word count divided by
\* the minutes, rounded to one decimal; wpm_assessment is too_slow exactly
\* when this rounded value is below 110, ideal exactly when it is from 110
\* to 160, too_fast exactly when it is above 160; the prospect's words do
\* not change either.
C18_RoundedPace ==
    \A n \in SpokenWords, m \in HeardWords, d \in Durations :
        d > 0 =>
            \A metrics \in MetricsOfTalk(n, m, d) :
                /\ metrics.total_user_words = n
                /\ 2 * Abs(metrics.words_per_minute * d - n * 600) <= d
                /\ metrics.wpm_assessment = PaceLabel(metrics.words_per_minute)
                /\ LET alone == analyze_speech_metrics(Talk(n, 0), d)
                   IN  /\ metrics.words_per_minute = alone.words_per_minute
                       /\ metrics.wpm_assessment = alone.wpm_assessment

\* C18 (as stated): words_per_minute is exactly the user's word count
\* divided by the minutes, and the label follows that quotient.
C18_ExactPace ==
    \A n \in SpokenWords, m \in HeardWords, d \in Durations :
        d > 0 =>
            \A metrics \in MetricsOfTalk(n, m, d) :
                /\ metrics.words_per_minute * d = n * 600
                /\ metrics.wpm_assessment =
                      CASE n * 60 < 110 * d -> "too_slow"
                        [] n * 60 >= 110 * d /\ n * 60 <= 160 * d -> "ideal"
                        [] n * 60 > 160 * d -> "too_fast"

\* Eleven user words and five prospect words in six seconds: 110.0 words
\* per minute, labelled ideal.
C18_Witness ==
    \E metrics \in MetricsOfTalk(11, 5, 6) :
        /\ metrics.words_per_minute = 1100
        /\ metrics.wpm_assessment = "ideal"
        /\ metrics.total_assistant_words = 5

\* The readings stored with a row: none when the telemetry is absent or
\* has no prosody_scores.
StoredReadings(row) ==
    IF row.emotion_data = None THEN << >>
    ELSE IF "prosody_scores" \in DOMAIN row.emotion_data[1]
    THEN row.emotion_data[1].prosody_scores
    ELSE << >>

\* The positions of the readings whose role is user.
UserPositions(readings) ==
    { i \in 1..Len(readings) :
        "role" \in DOMAIN readings[i] /\ readings[i].role = "user" }

\* The position of the k-th reading of the user, k from 1.
UserPosition(readings, k) ==
    CHOOSE p \in UserPositions(readings) :
        Cardinality({q \in UserPositions(readings) : q < p}) = k - 1

\* C19: the summary a task computed is the zero-valued summary when the
\* stored telemetry is absent, has no readings or has no reading of the
\* user; otherwise total_readings and the length of the timeline are the
\* number of readings of the user, and the k-th point has index k - 1 and
\* the timestamp of the k-th reading of the user.
C19_ZeroOrOnePointPerUserReading ==
    \A j \in 1..MaxJobs :
        ( jobs[j].emotion_summary # None /\ jobs[j].id \in DOMAIN sessions )
        => LET summary == jobs[j].emotion_summary[1]
               readings == StoredReadings(sessions[jobs[j].id])
               n == Cardinality(UserPositions(readings))
           IN  IF n = 0
               THEN summary =
                        [dimension_averages |->
                            [Confidence |-> 0, Enthusiasm |-> 0,
                             Hesitation |-> 0, Empathy |-> 0,
                             Frustration |-> 0],
                         dominant_emotions |-> << >>,
                         timeline |-> << >>,
                         total_readings |-> 0]
               ELSE /\ summary.total_readings = n
                    /\ Len(summary.timeline) = n
                    /\ \A k \in 1..n :
                         /\ summary.timeline[k].index = k - 1
                         /\ summary.timeline[k].timestamp =
                              Some(readings[UserPosition(readings, k)].timestamp)

\* Five readings, the second, fourth and fifth of the user: a timeline of
\* three points, indexed 0, 1, 2, in the order of the readings.
C19_Witness ==
    \E j \in 1..MaxJobs :
        /\ jobs[j].emotion_summary # None
        /\ sessions[jobs[j].id].emotion_data = Some(MixedEmotions)
        /\ jobs[j].emotion_summary[1].total_readings = 3
        /\ Len(jobs[j].emotion_summary[1].timeline) = 3
        /\ jobs[j].emotion_summary[1].timeline[1].timestamp = Some(1000)
        /\ jobs[j].emotion_summary[1].timeline[3].timestamp = Some(3000)
        /\ jobs[j].emotion_summary[1].timeline[3].index = 2

\* C20: a task that starts on an id that is not in the table returns at
\* once: it does not raise, the table and the count of model calls are as
\* before, and the task has not invoked the model.
C20_MissingSessionAbortsSilently ==
    [][\A j \in 1..MaxJobs, call_session_id \in CallIds :
            ( /\ generate_coaching_report_load(j, call_session_id)
              /\ call_session_id \notin DOMAIN sessions )
            => /\ jobs'[j].pc = "done"
               /\ jobs'[j].outcome = "not_found"
               /\ ~jobs'[j].invoked
               /\ sessions' = sessions
               /\ modelCalls' = modelCalls]_vars

\* A trigger was accepted, the session was deleted, and the task that then
\* started has returned without finding it.
C20_Witness ==
    \E j \in 1..MaxJobs :
        /\ jobs[j].pc = "done"
        /\ jobs[j].outcome = "not_found"
        /\ jobs[j].id \notin DOMAIN sessions
        /\ triggers[jobs[j].id] > 0
        /\ modelCalls[jobs[j].id] = 0

\* The process crashed while a task on session id was between its commit
\* of status analyzing and its last commit; the session is in the table with
\* status analyzing and no task is running or waiting for it.
LeftInAnalyzing(id) ==
    /\ id \in DOMAIN sessions
    /\ sessions[id].status = "analyzing"
    /\ queue[id] = 0
    /\ \A j \in 1..MaxJobs : jobs[j].id = id => jobs[j].pc \in Finished
    /\ \E j \in 1..MaxJobs : /\ jobs[j].id = id
                             /\ jobs[j].outcome = "crashed"
                             /\ jobs[j].checkpointed

\* C21: a session left in analyzing by a crash stays in analyzing for as
\* long as it is in the table, every trigger on it is refused, and so no
\* new task is started for it.
C21_StuckInAnalyzing ==
    [][\A id \in CallIds :
            LeftInAnalyzing(id)
            => /\ \A u \in Users : analyze_call_session_response(u, id).code # 200
               /\ id \in DOMAIN sessions' => sessions'[id].status = "analyzing"
               /\ queue'[id] = 0
               /\ \A j \in 1..MaxJobs : jobs'[j] = jobs[j]]_vars

\* What does hold for a session left in analyzing by a crash: every trigger
\* on it is refused, no task and no timer touches it, and its status
\* changes only when its owner sends complete again.
C21_OnlyCompleteLeavesAnalyzing ==
    [][\A id \in CallIds :
            LeftInAnalyzing(id)
            => /\ \A u \in Users : analyze_call_session_response(u, id).code # 200
               /\ queue'[id] = 0
               /\ \A j \in 1..MaxJobs : jobs'[j] = jobs[j]
               /\ ( id \in DOMAIN sessions'
                    /\ sessions'[id].status # "analyzing" )
                  => /\ sessions'[id].status = "completed"
                     /\ \E data \in CompleteInputs :
                          complete_call_session(sessions[id].owner_id, id, data)]_vars

\* A session left in analyzing by a crash.
C21_LeftInAnalyzing == \E id \in CallIds : LeftInAnalyzing(id)

\* The place of a dimension in the declaration of COACHING_EMOTIONS.
DeclarationPlace ==
    [Confidence |-> 1, Enthusiasm |-> 2, Hesitation |-> 3, Empathy |-> 4,
     Frustration |-> 5]

\* Dimension a comes before dimension b: its average is higher, or the
\* averages are equal and it is declared first.
ComesBefore(averages, a, b) ==
    \/ averages[a] > averages[b]
    \/ averages[a] = averages[b] /\ DeclarationPlace[a] < DeclarationPlace[b]

\* C22: when the telemetry has a reading of the user, dominant_emotions has
\* three entries, each a dimension with its overall average; each entry
\* comes before the next, and the third comes before every dimension that
\* is not in the list.
C22_DominantAreTopThree ==
    \A j \in 1..MaxJobs :
        ( /\ jobs[j].emotion_summary # None
          /\ jobs[j].id \in DOMAIN sessions
          /\ UserPositions(StoredReadings(sessions[jobs[j].id])) # {} )
        => LET summary == jobs[j].emotion_summary[1]
               averages == summary.dimension_averages
               dominant == summary.dominant_emotions
               listed == { dominant[r].dimension : r \in 1..Len(dominant) }
           IN  /\ Len(dominant) = 3
               /\ \A r \in 1..3 :
                    /\ DOMAIN dominant[r] = {"dimension", "score"}
                    /\ dominant[r].dimension \in DOMAIN DeclarationPlace
                    /\ dominant[r].score = averages[dominant[r].dimension]
               /\ \A r \in 1..2 :
                    ComesBefore(averages, dominant[r].dimension,
                                dominant[r + 1].dimension)
               /\ \A other \in DOMAIN DeclarationPlace \ listed :
                    ComesBefore(averages, dominant[3].dimension, other)

\* Four dimensions with the same average 0.5: the list is the first three
\* of them in declaration order.
C22_Witness ==
    \E j \in 1..MaxJobs :
        /\ jobs[j].emotion_summary # None
        /\ sessions[jobs[j].id].emotion_data = Some(TiedEmotions)
        /\ jobs[j].emotion_summary[1].dominant_emotions =
              << [dimension |-> "Enthusiasm", score |-> 500],
                 [dimension |-> "Hesitation", score |-> 500],
                 [dimension |-> "Empathy", score |-> 500] >>

RECURSIVE SplitOn(_, _)
\* The pieces of text t between the characters of the set seps, the empty
\* pieces left out.
SplitOn(t, seps) ==
    IF t = << >> THEN << >>
    ELSE IF Head(t) \in seps THEN SplitOn(Tail(t), seps)
    ELSE LET ends == {k \in 1..Len(t) : k = Len(t) \/ t[k + 1] \in seps}
             n == CHOOSE k \in ends : \A m \in ends : k <= m
         IN  <<SubSeq(t, 1, n)>> \o SplitOn(SubSeq(t, n + 1, Len(t)), seps)

\* A token without the punctuation before and after it: "know," is know.
Bare(token) ==
    LET idx == {i \in 1..Len(token) : IsWordChar(token[i])}
    IN  IF idx = {} THEN << >>
        ELSE SubSeq(token, CHOOSE i \in idx : \A k \in idx : i <= k,
                           CHOOSE i \in idx : \A k \in idx : i >= k)

\* The tokens of a text: what stands between blanks, in lower case and
\* without the punctuation around it.  uh-huh is one token.
TokensOf(t) ==
    LET pieces == SplitOn(Lower(t), {" "})
    IN  [i \in 1..Len(pieces) |-> Bare(pieces[i])]

\* How often the catalog phrase stands in the text as whole tokens.
WholeTokenCount(t, filler) ==
    LET tokens == TokensOf(t)
        words == SplitOn(FillerChars[filler], {" "})
    IN  Cardinality({i \in 1..(Len(tokens) - Len(words) + 1) :
                        \A m \in 1..Len(words) : tokens[i + m - 1] = words[m]})

RECURSIVE SumOver(_, _)
SumOver(f, S) ==
    IF S = {} THEN 0
    ELSE LET x == CHOOSE x \in S : TRUE IN f[x] + SumOver(f, S \ {x})

\* The text of the user in a stored transcript.
UserText(transcript) ==
    JoinTexts(SelectSeqBy(DictGet(transcript, "messages", << >>), "user"))

\* The filler counts that tasks computed for sessions with a non-empty
\* result, each with the text of the user it was computed from.
FillerResults ==
    { [text |-> UserText(sessions[jobs[j].id].transcript[1]),
       transcript |-> sessions[jobs[j].id].transcript[1],
       duration_seconds |-> sessions[jobs[j].id].duration_seconds[1],
       filler_words |-> jobs[j].speech_metrics[1].filler_words] :
        j \in { k \in 1..MaxJobs :
                  /\ jobs[k].speech_metrics # None
                  /\ jobs[k].id \in DOMAIN sessions
                  /\ sessions[jobs[k].id].duration_seconds[1] > 0
                  /\ DictGet(sessions[jobs[k].id].transcript[1],
                             "messages", << >>) # << >> } }

\* C23: the breakdown holds, for the text of the user alone, the catalog
\* phrases that stand in it as whole tokens at least once, each with the
\* number of times it does, and total is the sum of these numbers.
C23_FillersAreWholeTokens ==
    \A result \in FillerResults :
        LET found == {f \in FILLER_WORDS : WholeTokenCount(result.text, f) > 0}
        IN  /\ DOMAIN result.filler_words.breakdown = found
            /\ \A f \in found :
                 result.filler_words.breakdown[f] = WholeTokenCount(result.text, f)
            /\ result.filler_words.total =
                 SumOver(result.filler_words.breakdown, found)

\* What does hold: total is the sum of the breakdown, the breakdown has no
\* zero count, and the words of the prospect change nothing.
C23_SumOfUserFillers ==
    \A result \in FillerResults :
        /\ \A f \in DOMAIN result.filler_words.breakdown :
             /\ f \in FILLER_WORDS
             /\ result.filler_words.breakdown[f] > 0
        /\ result.filler_words.total =
             SumOver(result.filler_words.breakdown,
                     DOMAIN result.filler_words.breakdown)
        /\ result.filler_words =
             analyze_speech_metrics(
                [messages |-> SelectSeqBy(result.transcript.messages, "user")],
                result.duration_seconds).filler_words

\* "Um, you know, like summer": um, you know and like are counted once
\* each, and the um of summer and of the prospect are not.
C23_CommaAndSubstring ==
    \E result \in FillerResults :
        /\ result.transcript = FillerTranscript
        /\ result.filler_words.total = 3
        /\ DOMAIN result.filler_words.breakdown = {"um", "you know", "like"}

\* The labels of a dimension that a reading has.
PresentLabels(reading, dimension) ==
    { COACHING_EMOTIONS[dimension][i] :
        i \in 1..Len(COACHING_EMOTIONS[dimension]) } \cap DOMAIN reading.emotions

\* The positions of the readings of the user that have a label of the
\* dimension.
SampledPositions(readings, dimension) ==
    { p \in UserPositions(readings) :
        PresentLabels(readings[p], dimension) # {} }

\* Six times the sum, over the readings of the user that have a label of
\* the dimension, of the mean of the labels the reading has: a reading has
\* one, two or three of them, so the number is whole.
SixfoldSumOfMeans(readings, dimension) ==
    LET sampled == SampledPositions(readings, dimension)
        sixfold == [p \in sampled |->
                      LET present == PresentLabels(readings[p], dimension)
                      IN  SumOver(readings[p].emotions, present)
                            * (6 \div Cardinality(present))]
    IN  SumOver(sixfold, sampled)

\* The summaries that tasks computed, each with the stored readings.
EmotionResults ==
    { [readings |-> StoredReadings(sessions[jobs[j].id]),
       summary |-> jobs[j].emotion_summary[1]] :
        j \in { k \in 1..MaxJobs : /\ jobs[k].emotion_summary # None
                                   /\ jobs[k].id \in DOMAIN sessions } }

\* C24 (as amended): the overall average of a dimension is the mean, over
\* the readings of the user that have a label of the dimension, of the mean
\* of the labels the reading has, rounded to three decimals (it is within
\* half a thousandth of that mean); it is 0.0 when no reading of the user
\* has a label of the dimension.
C24_RoundedMeanOfPresentLabels ==
    \A result \in EmotionResults, dimension \in DOMAIN COACHING_EMOTIONS :
        LET n == Cardinality(SampledPositions(result.readings, dimension))
            average == result.summary.dimension_averages[dimension]
        IN  IF n = 0 THEN average = 0
            ELSE 2 * Abs(average * 6 * n
                           - SixfoldSumOfMeans(result.readings, dimension))
                    <= 6 * n

\* C24 (as stated): the overall average is exactly that mean.
C24_ExactMeanOfPresentLabels ==
    \A result \in EmotionResults, dimension \in DOMAIN COACHING_EMOTIONS :
        LET n == Cardinality(SampledPositions(result.readings, dimension))
            average == result.summary.dimension_averages[dimension]
        IN  IF n = 0 THEN average = 0
            ELSE average * 6 * n
                    = SixfoldSumOfMeans(result.readings, dimension)

\* Three readings of the user: Confidence 0.8 in the first, Determination
\* 0.5 in the second, no label of the dimension Confidence in the third.
\* The average of Confidence is 0.65 and that of Empathy is 0.0.
C24_Witness ==
    \E result \in EmotionResults :
        /\ result.readings = MixedEmotions.prosody_scores
        /\ result.summary.dimension_averages.Confidence = 650
        /\ result.summary.dimension_averages.Empathy = 0

\* The id was handed out and its session is no longer in the table.
Deleted(id) == id < nextId /\ id \notin DOMAIN sessions

\* C25: a delete that answers 200 removes the session from the table; from
\* then on every get of the id answers 404 and no step, of a request or of
\* a task, puts a session with this id into the table.
C25_DeletedStaysDeleted ==
    [][/\ \A u \in Users, id \in CallIds :
            ( /\ delete_call_session(u, id)
              /\ delete_call_session_response(u, id).code = 200 )
            => Deleted(id)'
       /\ \A id \in CallIds :
            Deleted(id)
            => /\ \A u \in Users :
                    get_call_session_response(u, id)
                        = HTTPException(404, "Call session not found")
               /\ Deleted(id)']_vars

\* The session was deleted while a task on it was past its commit of
\* analyzing; the task has ended and the session is not in the table.
C25_Witness ==
    \E j \in 1..MaxJobs :
        /\ jobs[j].pc = "done"
        /\ jobs[j].checkpointed
        /\ jobs[j].outcome = "failed"
        /\ Deleted(jobs[j].id)

\* The status a reader of the session gets: the status in the body of the
\* answer to a get by the owner.
ObservedStatus(id) ==
    get_call_session_response(sessions[id].owner_id, id).body.status

\* C26: a run invokes the model only after its commit of status analyzing,
\* and while the run waits for the model's answer a reader of the session
\* observes status analyzing.
C26_ReaderSeesAnalyzing ==
    [][\A j \in 1..MaxJobs :
         /\ ( jobs'[j].invoked /\ ~jobs[j].invoked ) => jobs[j].checkpointed
         /\ ( jobs[j].pc = "model" /\ jobs[j].id \in DOMAIN sessions )
            => ObservedStatus(jobs[j].id) = "analyzing"]_vars

\* What does hold: the commit of analyzing is a step of its own that puts
\* the status into the table and invokes nothing, the model is invoked in a
\* later step of the same run, and while the run waits for the answer the
\* status leaves analyzing only by a complete request or by the commit of
\* another run on the same session.
C26_AnalyzingCommittedBeforeModel ==
    [][\A j \in 1..MaxJobs :
         /\ ( jobs'[j].invoked /\ ~jobs[j].invoked ) => jobs[j].checkpointed
         /\ ( jobs'[j].checkpointed /\ ~jobs[j].checkpointed )
            => /\ sessions'[jobs[j].id].status = "analyzing"
               /\ ObservedStatus(jobs[j].id)' = "analyzing"
               /\ ~jobs'[j].invoked
               /\ modelCalls' = modelCalls
         /\ ( /\ jobs[j].pc = "model" /\ jobs'[j] = jobs[j]
              /\ jobs[j].id \in DOMAIN sessions \cap DOMAIN sessions'
              /\ sessions[jobs[j].id].status = "analyzing"
              /\ sessions'[jobs[j].id].status # "analyzing" )
            => \/ clock' = clock + 1
               \/ \E k \in 1..MaxJobs \ {j} :
                    jobs[k].id = jobs[j].id /\ jobs'[k] # jobs[k]]_vars

\* The positions of a run inside the except block.
InFailureHandler == {"except", "except_commit"}

\* A run invokes the model at most once, a run that has failed goes on to
\* its end and to no earlier statement, and the model is not invoked more
\* often for a session than tasks were started for it.
OneShot ==
    /\ \A id \in CallIds : modelCalls[id] <= triggers[id] - queue[id]
    /\ \A id \in CallIds :
         modelCalls'[id] # modelCalls[id]
         => /\ modelCalls'[id] = modelCalls[id] + 1
            /\ \E j \in 1..MaxJobs : /\ jobs[j].id = id
                                     /\ ~jobs[j].invoked
                                     /\ jobs'[j].invoked
    /\ \A j \in 1..MaxJobs :
         ( jobs[j].pc \in InFailureHandler /\ jobs'[j] # jobs[j] )
         => /\ jobs'[j].pc \in InFailureHandler \cup {"done", "raised"}
            /\ modelCalls' = modelCalls
    /\ \A id \in CallIds :
         queue'[id] > queue[id]
         => /\ triggers'[id] = triggers[id] + 1
            /\ \E u \in Users : /\ analyze_call_session(u, id)
                                /\ analyze_call_session_response(u, id).code = 200
    /\ \A j \in 1..MaxJobs :
         ( jobs[j].pc \in Finished /\ jobs'[j].pc \notin Finished )
         => queue'[jobs'[j].id] = queue[jobs'[j].id] - 1

\* C27: analysis is one shot, and after the first accepted trigger of a
\* session every trigger that is accepted for it, and so every further
\* attempt, is accepted while its status is error.
C27_RetryOnlyFromError ==
    [][/\ OneShot
       /\ \A id \in CallIds :
            ( triggers'[id] > triggers[id] /\ triggers[id] >= 1 )
            => sessions[id].status = "error"]_vars

\* What does hold: analysis is one shot, and a further trigger is accepted
\* while the status is completed or error.
C27_OneShotPerTrigger ==
    [][/\ OneShot
       /\ \A id \in CallIds :
            triggers'[id] > triggers[id]
            => sessions[id].status \in {"completed", "error"}]_vars

ShadowingResponses ==
    { answer \in ModelResponses :
        /\ answer.kind = "json"
        /\ DOMAIN answer.content
              \cap {"speech_metrics", "emotion_summary"} # {} }

\* C29: when a run commits its report, analysis_results holds under
\* speech_metrics and emotion_summary the values this run computed with the
\* two metric engines, also when the model's answer has keys of these
\* names; the other keys of the answer are stored as they came.
C29_ComputedMetricsWin ==
    [][\A j \in 1..MaxJobs :
         /\ ( /\ jobs[j].pc = "metrics"
              /\ jobs'[j].pc = "model" )
            => LET call == sessions[jobs[j].id]
               IN  /\ jobs'[j].speech_metrics =
                        Some(IF call.duration_seconds = None
                             THEN _empty_metrics
                             ELSE analyze_speech_metrics(
                                     call.transcript[1],
                                     call.duration_seconds[1]))
                   /\ jobs'[j].emotion_summary =
                        Some(summarize_emotions(
                                IF call.emotion_data = None THEN EmptyDict
                                ELSE call.emotion_data[1]))
         /\ \A answer \in ModelResponses :
              ( /\ generate_coaching_report_model(j, answer)
                /\ jobs'[j].pc = "done" )
              => LET stored == sessions'[jobs[j].id].analysis_results[1]
                 IN  /\ stored.speech_metrics = jobs[j].speech_metrics[1]
                     /\ stored.emotion_summary = jobs[j].emotion_summary[1]
                     /\ answer \in ShadowingResponses
                        => /\ stored.speech_metrics
                                # answer.content.speech_metrics
                           /\ stored.emotion_summary
                                # answer.content.emotion_summary
                           /\ stored.overall_score
                                = answer.content.overall_score]_vars

\* The model answered with keys speech_metrics and emotion_summary of its
\* own; the row is done, holds the answer's overall_score and, under the
\* two keys, what the engines give for the stored call.
C29_Witness ==
    \E id \in DOMAIN sessions :
        /\ sessions[id].status = "done"
        /\ sessions[id].analysis_results # None
        /\ LET stored == sessions[id].analysis_results[1]
           IN  /\ "overall_score" \in DOMAIN stored
               /\ stored.overall_score = ShadowingObject.overall_score
               /\ stored.speech_metrics # ShadowingObject.speech_metrics
               /\ stored.speech_metrics =
                     analyze_speech_metrics(sessions[id].transcript[1],
                                            sessions[id].duration_seconds[1])
               /\ stored.emotion_summary =
                     summarize_emotions(IF sessions[id].emotion_data = None
                                        THEN EmptyDict
                                        ELSE sessions[id].emotion_data[1])

====
